---- MODULE Spec2Model ----
(***************************************************************************)
(* arp-scan-rs: the scan engine of src/main.rs (orchestrator, sender loop, *)
(* drain sleep, interrupt handler), the receiver thread and the network    *)
(* range iterator of src/network.rs.                                       *)
(*                                                                         *)
(* The orchestrator (main thread), the receiver thread and the SIGINT      *)
(* handler are three processes that interleave; they share two atomic      *)
(* booleans, finish_sleep and timed_out.  A step of a process is a stretch *)
(* of its code that touches at most one shared location.                   *)
(***************************************************************************)
EXTENDS Integers, Sequences, FiniteSets, TLC

(***************************************************************************)
(* Bounds of the model.                                                    *)
(***************************************************************************)
\* width of an address in bits (32 for IPv4)
AddrBits == 2
\* largest number of host bits of a scanned network
MaxHostBits == 1
\* largest retry_count
MaxRetry == 2
\* largest number of frames the link delivers to the receiver during a scan
MaxFrames == 3
\* largest timeout_ms, in drain chunks
MaxDrainChunks == 1
\* number of distinct sender addresses (IPv4 and MAC) seen on the link
MaxSenders == 2
\* largest number of networks given to a NetworkIterator
MaxNetworks == 2
\* calls of next() followed after it returned None
MaxCallsAfterNone == 2
\* host bits of the largest network given to the random iterator
MaxRandomHostBits == 2
\* largest scaled-down chunk of the random pool
MaxPoolChunk == 3
\* bits of the unsigned integers that stand for u64 in the duration parser
U64Bits == 24
\* characters of the longest text given to the duration parser
MaxTextLen == 3

(***************************************************************************)
(* Program constants.                                                      *)
(***************************************************************************)
DRAIN_CHUNK_MS == 500
ETHERNET_HEADER_SIZE == 14
ARP_PACKET_SIZE == 28
ETHERNET_STD_PACKET_SIZE == 42
ETHERNET_VLAN_PACKET_SIZE == 46
EtherTypeArp == 2054
EtherTypeIpv4 == 2048
ArpOperationRequest == 1
ArpOperationReply == 2
AVG_ARP_REQUEST_MS == 3
AVG_RESOLVE_MS == 500

\* Option<T>: None is the empty sequence, Some(x) the sequence of x alone
None == << >>
Some(x) == <<x>>

(***************************************************************************)
(* Arithmetic helpers.                                                     *)
(***************************************************************************)
RECURSIVE Pow2(_)
Pow2(n) == IF n = 0 THEN 1 ELSE 2 * Pow2(n - 1)

Range(s) == {s[i] : i \in DOMAIN s}

\* number of indices of s that hold x
Count(s, x) == Cardinality({i \in DOMAIN s : s[i] = x})

\* s without its element of index i
RemoveAt(s, i) == SubSeq(s, 1, i - 1) \o SubSeq(s, i + 1, Len(s))

\* all orders in which a shuffle can leave the sequence s
RECURSIVE Shuffles(_)
Shuffles(s) ==
    IF s = << >> THEN {<< >>}
    ELSE UNION {{<<s[i]>> \o q : q \in Shuffles(RemoveAt(s, i))} : i \in DOMAIN s}

(***************************************************************************)
(* Networks.  A network is [ip, prefix]; its iterator starts at the        *)
(* network address and ends at the broadcast address, both included.       *)
(***************************************************************************)
network_size(net) == Pow2(AddrBits - net.prefix)

NetworkAddresses(net) ==
    LET size == network_size(net)
        base == (net.ip \div size) * size
    IN  [i \in 1..size |-> base + (i - 1)]

Addresses == 0..(Pow2(AddrBits) - 1)

Networks ==
    {[ip |-> a, prefix |-> p] : a \in Addresses, p \in (AddrBits - MaxHostBits)..AddrBits}

\* utils::compute_network_size
compute_network_size(net) == network_size(net)

(***************************************************************************)
(* Timing planner, network.rs compute_scan_estimation.  A division by zero *)
(* panics; the u128 subtraction below zero panics in a debug build and     *)
(* wraps in a release build to a value that the conversion to u64 rejects, *)
(* which panics as well.  The values of the model stay far below 2^64, so  *)
(* the conversion fails in no other case.                                  *)
(***************************************************************************)
\* the outcome of a call that panics
Panic == [panic |-> TRUE]

\* the planner with the bandwidth of interval mode rounded up
Mutant_compute_scan_estimation(host_count, options) ==
    LET timeout == options.timeout_ms
        packet_size == IF options.has_vlan THEN ETHERNET_VLAN_PACKET_SIZE
                                          ELSE ETHERNET_STD_PACKET_SIZE
        retry_count == options.retry_count
        request_size == host_count * packet_size
    IN  IF options.scan_timing.mode = "Bandwidth"
        THEN LET bandwidth_lg == options.scan_timing.value
             IN  IF bandwidth_lg = 0 \/ retry_count = 0 \/ host_count = 0
                 THEN Panic
                 ELSE LET request_phase_ms == (request_size * 1000) \div bandwidth_lg
                          per_host == (request_phase_ms \div retry_count) \div host_count
                      IN  IF per_host < AVG_ARP_REQUEST_MS
                          THEN Panic
                          ELSE [interval_ms |-> per_host - AVG_ARP_REQUEST_MS,
                                duration_ms |-> request_phase_ms + timeout + AVG_RESOLVE_MS,
                                request_size |-> request_size,
                                bandwidth |-> bandwidth_lg]
        ELSE LET interval_ms_lg == options.scan_timing.value
                 request_phase_ms == (host_count * (AVG_ARP_REQUEST_MS + interval_ms_lg)) * retry_count
             IN  IF request_phase_ms = 0
                 THEN Panic
                 ELSE [interval_ms |-> options.scan_timing.value,
                       duration_ms |-> request_phase_ms + timeout + AVG_RESOLVE_MS,
                       request_size |-> request_size,
                       bandwidth |-> (request_size * 1000) \div request_phase_ms + 1]

compute_scan_estimation(host_count, options) ==
    LET timeout == options.timeout_ms
        packet_size == IF options.has_vlan THEN ETHERNET_VLAN_PACKET_SIZE
                                          ELSE ETHERNET_STD_PACKET_SIZE
        retry_count == options.retry_count
        request_size == host_count * packet_size
    IN  IF options.scan_timing.mode = "Bandwidth"
        THEN LET bandwidth_lg == options.scan_timing.value
             IN  IF bandwidth_lg = 0 \/ retry_count = 0 \/ host_count = 0
                 THEN Panic
                 ELSE LET request_phase_ms == (request_size * 1000) \div bandwidth_lg
                          per_host == (request_phase_ms \div retry_count) \div host_count
                      IN  IF per_host < AVG_ARP_REQUEST_MS
                          THEN Panic
                          ELSE [interval_ms |-> per_host - AVG_ARP_REQUEST_MS,
                                duration_ms |-> request_phase_ms + timeout + AVG_RESOLVE_MS,
                                request_size |-> request_size,
                                bandwidth |-> bandwidth_lg]
        ELSE LET interval_ms_lg == options.scan_timing.value
                 request_phase_ms == (host_count * (AVG_ARP_REQUEST_MS + interval_ms_lg)) * retry_count
             IN  IF request_phase_ms = 0
                 THEN Panic
                 ELSE [interval_ms |-> options.scan_timing.value,
                       duration_ms |-> request_phase_ms + timeout + AVG_RESOLVE_MS,
                       request_size |-> request_size,
                       bandwidth |-> (request_size * 1000) \div request_phase_ms]

(***************************************************************************)
(* Frames on the link, as the receiver reads them: the length of the       *)
(* buffer, the outer ethertype and, for ARP, the operation and the sender  *)
(* addresses.  Fields that the length cuts off are 0.                      *)
(***************************************************************************)
Senders == 1..MaxSenders

Frames ==
    {[len |-> ETHERNET_HEADER_SIZE - 1, ethertype |-> 0, op |-> 0, spa |-> 0, sha |-> 0]}
    \cup {[len |-> ETHERNET_STD_PACKET_SIZE, ethertype |-> EtherTypeIpv4, op |-> 0, spa |-> 0, sha |-> 0]}
    \cup {[len |-> ETHERNET_STD_PACKET_SIZE - 1, ethertype |-> EtherTypeArp, op |-> 0, spa |-> 0, sha |-> 0]}
    \cup {[len |-> ETHERNET_STD_PACKET_SIZE, ethertype |-> EtherTypeArp, op |-> o, spa |-> i, sha |-> m] :
            o \in {ArpOperationRequest, ArpOperationReply}, i \in Senders, m \in Senders}

\* EthernetPacket::new: None when the buffer is shorter than the header
EthernetPacketNew(frame) ==
    IF frame.len >= ETHERNET_HEADER_SIZE THEN Some(frame) ELSE None

\* ArpPacket::new on the bytes after the Ethernet header: None when they are
\* fewer than an ARP packet
ArpPacketNew(frame) ==
    IF frame.len - ETHERNET_HEADER_SIZE >= ARP_PACKET_SIZE
    THEN Some([sender_proto_addr |-> frame.spa, sender_hw_addr |-> frame.sha,
               operation |-> frame.op])
    ELSE None

\* matches!(ethernet_packet.get_ethertype(), EtherTypes::Arp)
is_arp_type(ethernet_packet) == ethernet_packet.ethertype = EtherTypeArp

\* a frame does not replace the target that its sender address already has
Mutant_ProcessFrameKeepFirst(frame, pc, ac, map) ==
    LET arp_packet == ArpPacketNew(frame)
        arp == arp_packet[1]
        is_arp == EthernetPacketNew(frame) # None /\ is_arp_type(frame)
    IN  [packet_count |-> pc + 1,
         arp_count |-> IF is_arp THEN ac + 1 ELSE ac,
         discover_map |-> IF is_arp /\ arp_packet # None /\ arp.sender_proto_addr \notin DOMAIN map
                          THEN [ip \in (DOMAIN map) \cup {arp.sender_proto_addr} |->
                                   IF ip = arp.sender_proto_addr
                                   THEN [ipv4 |-> arp.sender_proto_addr, mac |-> arp.sender_hw_addr,
                                         hostname |-> None, vendor |-> None]
                                   ELSE map[ip]]
                          ELSE map,
         inserted |-> is_arp /\ arp_packet # None]

\* the receiver's handling of one frame (network.rs 402-432): the new
\* packet_count, arp_count and discover_map, and whether the frame reached
\* the insert
ProcessFrame(frame, pc, ac, map) ==
    LET counted == pc + 1
    IN  IF EthernetPacketNew(frame) = None
        THEN [packet_count |-> counted, arp_count |-> ac, discover_map |-> map, inserted |-> FALSE]
        ELSE IF ~is_arp_type(EthernetPacketNew(frame)[1])
        THEN [packet_count |-> counted, arp_count |-> ac, discover_map |-> map, inserted |-> FALSE]
        ELSE LET arp_packet == ArpPacketNew(frame)
                 arp == arp_packet[1]
             IN  IF arp_packet = None
                 THEN [packet_count |-> counted, arp_count |-> ac + 1, discover_map |-> map, inserted |-> FALSE]
                 ELSE [packet_count |-> counted, arp_count |-> ac + 1,
                       discover_map |-> [ip \in (DOMAIN map) \cup {arp.sender_proto_addr} |->
                                            IF ip = arp.sender_proto_addr
                                            THEN [ipv4 |-> arp.sender_proto_addr, mac |-> arp.sender_hw_addr,
                                                  hostname |-> None, vendor |-> None]
                                            ELSE map[ip]],
                       inserted |-> TRUE]

(***************************************************************************)
(* State of a NetworkIterator (network.rs 248-343).                        *)
(***************************************************************************)
VARIABLES
    current_iterator,  \* Option: the addresses the current network still yields
    networks,          \* the networks not begun yet
    is_random,
    random_pool,
    pool_chunk,        \* iterations of the loop of fill_random_pool
    \* history of the iterator
    cidrs,             \* the list given to NetworkIterator::new
    yielded,           \* the addresses next() returned, in order
    last_next,         \* what the last call of next() returned
    ended,             \* next() has returned None
    calls_after_none,  \* calls of next() made after it returned None
    pool_peak          \* the longest random_pool a call of next() has held

iterVars == <<current_iterator, networks, is_random, random_pool, pool_chunk, cidrs, yielded,
              last_next, ended, calls_after_none, pool_peak>>

(***************************************************************************)
(* State of a scan (main.rs 124-206, network.rs receive_arp_responses).    *)
(***************************************************************************)
VARIABLES
    scan_options,      \* the ScanOptions, never mutated
    selected_interface, \* the interface of the scan: its IPv4 networks, in order
    has_vendor_db,     \* vendor_list.has_vendor_db()
    process,           \* "running", or how the process ended
    finish_sleep,      \* atomic: set by the CTRL+C handler
    timed_out,         \* atomic: set by main, read by the receiver
    mainPc,            \* position of the main thread
    retry,             \* index of the retry pass
    ip_addresses,      \* addresses of the pass not visited yet
    sleep_ms_mount,    \* cumulative drain sleep
    handed,            \* what main handed to the formatter
    rxPc,              \* position of the receiver thread
    packet_count,
    arp_count,
    discover_map,
    rxResult,          \* what the receiver thread returned
    link_frames,       \* the frames that the link can deliver
    frames_left,       \* number of frames that the link still delivers
    \* history of the run
    sent,              \* requests sent: their number for each pass and target
    sent_after_interrupt, \* requests sent after finish_sleep was set
    sent_after_stop,   \* requests sent after timed_out was set
    accepted,          \* frames that reached the insert, and whether timed_out was set
    reads_after_stop,  \* reads that returned after timed_out was set
    drain_after_interrupt, \* drain chunks slept after finish_sleep was set
    sleep_at_stop,     \* sleep_ms_mount and finish_sleep when timed_out was set
    send_failed,       \* a send of the run returned an error
    interval_sleeps    \* the milliseconds slept after each request, in order

cfgVars == <<scan_options, selected_interface, has_vendor_db>>

\* main.rs 74-84: the network that main scans
ip_network == Head(selected_interface.ips)
mainVars == <<mainPc, retry, ip_addresses, sleep_ms_mount, handed>>
rxVars == <<rxPc, packet_count, arp_count, discover_map, rxResult, link_frames, frames_left>>
mainHist == <<sent, sent_after_interrupt, sent_after_stop, drain_after_interrupt,
              sleep_at_stop>>
rxHist == <<accepted, reads_after_stop>>
sendHist == <<send_failed, interval_sleeps>>
scanVars == <<cfgVars, process, finish_sleep, timed_out, mainVars, rxVars, mainHist, rxHist, sendHist>>

(***************************************************************************)
(* One call of a function of the program that keeps no state: the encoder, *)
(* the timing planner, the option builder, the duration parser.            *)
(***************************************************************************)
VARIABLES
    call_args,         \* Option: the arguments of the call
    call_result,       \* Option: what the call returned, None until it returns
    call_log,          \* the calls made before this one: <<[args, result]>>
    vendor_list        \* Option: the Vendor instance the lookups are made on

callVars == <<call_args, call_result, call_log, vendor_list>>

\* the call is the first one, and no Vendor instance is looked at
SingleCall == call_log = << >> /\ vendor_list = None

\* no such call is made
CallIdle == call_args = None /\ call_result = None /\ SingleCall

TimeoutValues ==
    {t \in 0..(MaxDrainChunks * DRAIN_CHUNK_MS + 1) : t % DRAIN_CHUNK_MS \in {0, 1}}

Interval(ms) == [mode |-> "Interval", value |-> ms]
Bandwidth(bps) == [mode |-> "Bandwidth", value |-> bps]

\* the state after the receiver thread is spawned (main.rs 130)
ScanInit(option_set, interface_set, vendor_dbs, frame_sets, frame_counts) ==
    /\ scan_options \in option_set
    /\ selected_interface \in interface_set
    /\ has_vendor_db \in vendor_dbs
    /\ process = "running"
    /\ finish_sleep = FALSE
    /\ timed_out = FALSE
    /\ mainPc = "estimate"
    /\ retry = 0
    /\ ip_addresses = << >>
    /\ sleep_ms_mount = 0
    /\ handed = None
    /\ rxPc = "check"
    /\ packet_count = 0
    /\ arp_count = 0
    /\ discover_map = << >>
    /\ rxResult = None
    /\ link_frames \in frame_sets
    /\ frames_left \in frame_counts
    /\ sent = [k \in (0..(MaxRetry - 1)) \X Addresses |-> 0]
    /\ sent_after_interrupt = 0
    /\ sent_after_stop = 0
    /\ accepted = << >>
    /\ reads_after_stop = 0
    /\ drain_after_interrupt = 0
    /\ sleep_at_stop = None
    /\ send_failed = FALSE
    /\ interval_sleeps = << >>

(***************************************************************************)
(* The main thread.                                                        *)
(***************************************************************************)
\* main.rs 132-139: the estimation is computed for the plain output only
MainEstimate ==
    /\ process = "running" /\ mainPc = "estimate"
    /\ IF /\ scan_options.output = "Plain"
          /\ compute_scan_estimation(compute_network_size(ip_network), scan_options) = Panic
       THEN process' = "panic" /\ mainPc' = mainPc
       ELSE process' = process /\ mainPc' = "set_handler"
    /\ UNCHANGED <<callVars, iterVars, sendHist, cfgVars, finish_sleep, timed_out, retry, ip_addresses, sleep_ms_mount,
                   handed, rxVars, mainHist, rxHist>>

\* main.rs 141-149: ctrlc::set_handler succeeded
MainSetHandler ==
    /\ process = "running" /\ mainPc = "set_handler"
    /\ mainPc' = "retry_head"
    /\ UNCHANGED <<callVars, iterVars, sendHist, cfgVars, process, finish_sleep, timed_out, retry, ip_addresses,
                   sleep_ms_mount, handed, rxVars, mainHist, rxHist>>

\* main.rs 146-149: ctrlc::set_handler failed
MainSetHandlerFails ==
    /\ process = "running" /\ mainPc = "set_handler"
    /\ process' = "exit1"
    /\ UNCHANGED <<callVars, iterVars, sendHist, cfgVars, finish_sleep, timed_out, mainVars, rxVars, mainHist, rxHist>>

\* main.rs 153: for _ in 0..retry_count
MainRetryHead ==
    /\ process = "running" /\ mainPc = "retry_head"
    /\ mainPc' = IF retry < scan_options.retry_count THEN "pass_check" ELSE "drain_check"
    /\ UNCHANGED <<callVars, iterVars, sendHist, cfgVars, process, finish_sleep, timed_out, retry, ip_addresses,
                   sleep_ms_mount, handed, rxVars, mainHist, rxHist>>

\* main.rs 163-171: the addresses of a pass
PassAddresses(randomize_targets, net) ==
    IF randomize_targets THEN Shuffles(NetworkAddresses(net)) ELSE {NetworkAddresses(net)}

\* main.rs 155-171: the flag check at the head of a pass, then its addresses
MainPassCheck ==
    /\ process = "running" /\ mainPc = "pass_check"
    /\ IF finish_sleep
       THEN mainPc' = "drain_check" /\ ip_addresses' = ip_addresses
       ELSE /\ mainPc' = "addr_check"
            /\ ip_addresses' \in PassAddresses(scan_options.randomize_targets, ip_network)
    /\ UNCHANGED <<callVars, iterVars, sendHist, cfgVars, process, finish_sleep, timed_out, retry, sleep_ms_mount,
                   handed, rxVars, mainHist, rxHist>>

\* the per-address check left out
Mutant_SenderBreaks(flag) == FALSE

\* main.rs 175: the sender stops at this address
SenderBreaks(flag) == flag

\* main.rs 173-177: next address of the pass, and the flag check before it.
\* A break, like the end of the addresses, leads to the next pass.
MainAddrCheck ==
    /\ process = "running" /\ mainPc = "addr_check"
    /\ IF ip_addresses = << >> \/ SenderBreaks(finish_sleep)
       THEN mainPc' = "retry_head" /\ retry' = retry + 1
       ELSE mainPc' = "send" /\ retry' = retry
    /\ UNCHANGED <<callVars, iterVars, sendHist, cfgVars, process, finish_sleep, timed_out, ip_addresses, sleep_ms_mount,
                   handed, rxVars, mainHist, rxHist>>

\* main.rs 179-180: one ARP request to the address
MainSend ==
    /\ process = "running" /\ mainPc = "send"
    /\ sent' = [sent EXCEPT ![<<retry, Head(ip_addresses)>>] = @ + 1]
    /\ sent_after_interrupt' = sent_after_interrupt + (IF finish_sleep THEN 1 ELSE 0)
    /\ sent_after_stop' = sent_after_stop + (IF timed_out THEN 1 ELSE 0)
    /\ ip_addresses' = Tail(ip_addresses)
    /\ mainPc' = "interval_sleep"
    /\ UNCHANGED <<callVars, iterVars, sendHist, cfgVars, process, finish_sleep, timed_out, retry, sleep_ms_mount,
                   handed, rxVars, drain_after_interrupt, sleep_at_stop, rxHist>>

\* network.rs 240: tx.send_to returns an error, which send_arp_request drops;
\* main goes on as after a request that was sent
MainSendFails ==
    /\ process = "running" /\ mainPc = "send"
    /\ send_failed' = TRUE
    /\ sent' = [sent EXCEPT ![<<retry, Head(ip_addresses)>>] = @ + 1]
    /\ sent_after_interrupt' = sent_after_interrupt + (IF finish_sleep THEN 1 ELSE 0)
    /\ sent_after_stop' = sent_after_stop + (IF timed_out THEN 1 ELSE 0)
    /\ ip_addresses' = Tail(ip_addresses)
    /\ mainPc' = "interval_sleep"
    /\ UNCHANGED <<callVars, iterVars, interval_sleeps, cfgVars, process, finish_sleep, timed_out, retry,
                   sleep_ms_mount, handed, rxVars, drain_after_interrupt, sleep_at_stop, rxHist>>

\* args.rs 20
REQUEST_MS_INTERVAL == 10

\* the field interval_ms of the options that main.rs 138 and 181 read: the
\* interval the options were given, else the default one
interval_ms(options) ==
    IF options.scan_timing.mode = "Interval" THEN options.scan_timing.value
                                             ELSE REQUEST_MS_INTERVAL

\* main.rs 181: thread::sleep(Duration::from_millis(scan_options.interval_ms))
IntervalSleep(options, sleeps) == Append(sleeps, interval_ms(options))

MainIntervalSleep ==
    /\ process = "running" /\ mainPc = "interval_sleep"
    /\ interval_sleeps' = IntervalSleep(scan_options, interval_sleeps)
    /\ mainPc' = "addr_check"
    /\ UNCHANGED <<callVars, iterVars, send_failed, cfgVars, process, finish_sleep, timed_out, retry, ip_addresses,
                   sleep_ms_mount, handed, rxVars, mainHist, rxHist>>

\* the drain loop stops one chunk early
Mutant_DrainContinuesEarly(flag, slept, timeout_ms) ==
    flag = FALSE /\ slept + DRAIN_CHUNK_MS < timeout_ms

\* the drain loop does not look at the interrupt flag
Mutant_DrainContinuesDeaf(flag, slept, timeout_ms) == slept < timeout_ms

\* main.rs 190: the condition of the drain loop
DrainContinues(flag, slept, timeout_ms) == flag = FALSE /\ slept < timeout_ms

MainDrainCheck ==
    /\ process = "running" /\ mainPc = "drain_check"
    /\ mainPc' = IF DrainContinues(finish_sleep, sleep_ms_mount, scan_options.timeout_ms)
                 THEN "drain_sleep" ELSE "stop"
    /\ UNCHANGED <<callVars, iterVars, sendHist, cfgVars, process, finish_sleep, timed_out, retry, ip_addresses,
                   sleep_ms_mount, handed, rxVars, mainHist, rxHist>>

\* main.rs 192-193: one chunk of the drain sleep
MainDrainSleep ==
    /\ process = "running" /\ mainPc = "drain_sleep"
    /\ sleep_ms_mount' = sleep_ms_mount + DRAIN_CHUNK_MS
    /\ drain_after_interrupt' = drain_after_interrupt + (IF finish_sleep THEN 1 ELSE 0)
    /\ mainPc' = "drain_check"
    /\ UNCHANGED <<callVars, iterVars, sendHist, cfgVars, process, finish_sleep, timed_out, retry, ip_addresses,
                   handed, rxVars, sent, sent_after_interrupt, sent_after_stop,
                   sleep_at_stop, rxHist>>

\* main.rs 195: timed_out.store(true)
MainStop ==
    /\ process = "running" /\ mainPc = "stop"
    /\ timed_out' = TRUE
    /\ sleep_at_stop' = Some([slept |-> sleep_ms_mount, interrupted |-> finish_sleep])
    /\ mainPc' = "join"
    /\ UNCHANGED <<callVars, iterVars, sendHist, cfgVars, process, finish_sleep, retry, ip_addresses, sleep_ms_mount,
                   handed, rxVars, sent, sent_after_interrupt, sent_after_stop,
                   drain_after_interrupt, rxHist>>

\* main.rs 197-200: the join returns what the receiver thread returned
MainJoin ==
    /\ process = "running" /\ mainPc = "join"
    /\ rxPc = "returned"
    /\ mainPc' = "format"
    /\ UNCHANGED <<callVars, iterVars, sendHist, cfgVars, process, finish_sleep, timed_out, retry, ip_addresses,
                   sleep_ms_mount, handed, rxVars, mainHist, rxHist>>

\* main.rs 202-207: the result goes to the formatter and main returns
MainFormat ==
    /\ process = "running" /\ mainPc = "format"
    /\ handed' = rxResult
    /\ mainPc' = "done"
    /\ process' = "exit0"
    /\ UNCHANGED <<callVars, iterVars, sendHist, cfgVars, finish_sleep, timed_out, retry, ip_addresses, sleep_ms_mount,
                   rxVars, mainHist, rxHist>>

\* main.rs 144-145: the CTRL+C handler, once it is installed
Interrupt ==
    /\ process = "running" /\ mainPc \notin {"estimate", "set_handler"}
    /\ finish_sleep' = TRUE
    /\ UNCHANGED <<callVars, iterVars, sendHist, cfgVars, process, timed_out, mainVars, rxVars, mainHist, rxHist>>

(***************************************************************************)
(* The receiver thread, network.rs receive_arp_responses.                  *)
(***************************************************************************)
\* the receiver does not look at the flag
Mutant_ReceiverBreaks(flag) == FALSE

\* network.rs 383: the receiver leaves its loop
ReceiverBreaks(flag) == flag

\* network.rs 381-387: the loop-head check, then the blocking read begins
RxCheck ==
    /\ process = "running" /\ rxPc = "check"
    /\ rxPc' = IF ReceiverBreaks(timed_out) THEN "enrich" ELSE "read"
    /\ UNCHANGED <<callVars, iterVars, sendHist, cfgVars, process, finish_sleep, timed_out, mainVars, packet_count,
                   arp_count, discover_map, rxResult, link_frames, frames_left, mainHist, rxHist>>

\* network.rs 387-394: rx.next() ends with the read-timeout
RxTimeout ==
    /\ process = "running" /\ rxPc = "read"
    /\ rxPc' = "check"
    /\ reads_after_stop' = reads_after_stop + (IF timed_out THEN 1 ELSE 0)
    /\ UNCHANGED <<callVars, iterVars, sendHist, cfgVars, process, finish_sleep, timed_out, mainVars, packet_count,
                   arp_count, discover_map, rxResult, link_frames, frames_left, mainHist, accepted>>

\* network.rs 395-398: rx.next() ends with another error
RxFatal ==
    /\ process = "running" /\ rxPc = "read"
    /\ process' = "exit1"
    /\ UNCHANGED <<callVars, iterVars, sendHist, cfgVars, finish_sleep, timed_out, mainVars, rxVars, mainHist, rxHist>>

\* network.rs 387-432: rx.next() returns a frame, which is counted, parsed
\* and, when it is an ARP packet, inserted
RxFrame ==
    /\ process = "running" /\ rxPc = "read"
    /\ frames_left > 0
    /\ \E frame \in link_frames :
        LET r == ProcessFrame(frame, packet_count, arp_count, discover_map)
        IN  /\ packet_count' = r.packet_count
            /\ arp_count' = r.arp_count
            /\ discover_map' = r.discover_map
            /\ accepted' = IF r.inserted
                           THEN Append(accepted, [spa |-> frame.spa, sha |-> frame.sha,
                                                  op |-> frame.op, after_stop |-> timed_out])
                           ELSE accepted
    /\ frames_left' = frames_left - 1
    /\ reads_after_stop' = reads_after_stop + (IF timed_out THEN 1 ELSE 0)
    /\ rxPc' = "check"
    /\ UNCHANGED <<callVars, iterVars, sendHist, cfgVars, process, finish_sleep, timed_out, mainVars, rxResult,
                   link_frames, mainHist>>

\* network.rs find_hostname: a name, or None when the lookup fails or
\* returns an IP address
HostnameResults == {None, Some("host")}
\* vendor.rs search_by_mac: the vendor of the first matching record, or None
VendorResults == {None, Some("vendor")}

\* network.rs 437-449: one target of the map, enriched
EnrichTarget(target, resolve_hostname, vendor_db, hostname, vendor) ==
    [ipv4 |-> target.ipv4, mac |-> target.mac,
     hostname |-> IF resolve_hostname THEN hostname ELSE target.hostname,
     vendor |-> IF vendor_db THEN vendor ELSE target.vendor]

\* the two counters in each other's field
Mutant_ResponseSummary(packets, arps) == [packet_count |-> arps, arp_count |-> packets]

\* network.rs 453-457: the summary of the receiver
ResponseSummary(packets, arps) == [packet_count |-> packets, arp_count |-> arps]

\* the orders in which the map can be iterated
MapOrders(map) ==
    {o \in [1..Cardinality(DOMAIN map) -> DOMAIN map] : \A i, j \in DOMAIN o : o[i] = o[j] => i = j}

\* network.rs 435-458: the enrichment pass and the return
RxEnrich ==
    /\ process = "running" /\ rxPc = "enrich"
    /\ \E order \in MapOrders(discover_map) :
       \E hostnames \in [DOMAIN discover_map -> IF scan_options.resolve_hostname
                                               THEN HostnameResults ELSE {None}] :
       \E vendors \in [DOMAIN discover_map -> IF has_vendor_db THEN VendorResults ELSE {None}] :
          rxResult' = Some([response_summary |-> ResponseSummary(packet_count, arp_count),
                            target_details |->
                                [i \in DOMAIN order |->
                                    EnrichTarget(discover_map[order[i]],
                                                 scan_options.resolve_hostname, has_vendor_db,
                                                 hostnames[order[i]], vendors[order[i]])]])
    /\ rxPc' = "returned"
    /\ UNCHANGED <<callVars, iterVars, sendHist, cfgVars, process, finish_sleep, timed_out, mainVars, packet_count,
                   arp_count, discover_map, link_frames, frames_left, mainHist, rxHist>>

\* vendor.rs 53-63: the seek or a record of the database fails while a
\* target is looked up
RxEnrichFatal ==
    /\ process = "running" /\ rxPc = "enrich"
    /\ has_vendor_db /\ discover_map # << >>
    /\ process' = "exit1"
    /\ UNCHANGED <<callVars, iterVars, sendHist, cfgVars, finish_sleep, timed_out, mainVars, rxVars, mainHist, rxHist>>

MainStep ==
    \/ MainEstimate
    \/ MainSetHandler
    \/ MainRetryHead
    \/ MainPassCheck
    \/ MainAddrCheck
    \/ MainSend
    \/ MainIntervalSleep
    \/ MainDrainCheck
    \/ MainDrainSleep
    \/ MainStop
    \/ MainJoin
    \/ MainFormat

RxStep ==
    \/ RxCheck
    \/ RxTimeout
    \/ RxFrame
    \/ RxEnrich

FatalStep ==
    \/ MainSetHandlerFails
    \/ RxFatal
    \/ RxEnrichFatal

(***************************************************************************)
(* The network range iterator, network.rs NetworkIterator.                 *)
(***************************************************************************)
RANDOM_POOL_CHUNK == 1000

\* NetworkIterator::has_no_items_left
has_no_items_left(it) ==
    it.current_iterator = None /\ it.networks = << >> /\ it.random_pool = << >>

\* the network begun stays in the list: networks[0].iter()
Mutant_select_new_iterator(it) ==
    [it EXCEPT !.current_iterator = Some(NetworkAddresses(Head(it.networks)))]

\* NetworkIterator::select_new_iterator: networks.remove(0).iter()
select_new_iterator(it) ==
    [it EXCEPT !.current_iterator = Some(NetworkAddresses(Head(it.networks))),
               !.networks = Tail(it.networks)]

\* NetworkIterator::pop_next_iterator_address: the iterator after the call
\* and the address it returned
pop_next_iterator_address(it) ==
    IF it.current_iterator = None \/ it.current_iterator[1] = << >>
    THEN [it |-> it, ip |-> None]
    ELSE [it |-> [it EXCEPT !.current_iterator = Some(Tail(it.current_iterator[1]))],
          ip |-> Some(Head(it.current_iterator[1]))]

Min(a, b) == IF a < b THEN a ELSE b

\* the address that fills the chunk is taken from the iterator and not pushed
Mutant_fill_loop_drop(it) ==
    LET rest == it.current_iterator[1]
        n == Min(pool_chunk, Len(rest))
        kept == IF n = pool_chunk THEN n - 1 ELSE n
    IN  [it EXCEPT !.current_iterator = Some(SubSeq(rest, n + 1, Len(rest))),
                   !.random_pool = it.random_pool \o SubSeq(rest, 1, kept)]

\* the loop runs once more: 0..=chunk
Mutant_fill_loop_inclusive(it) ==
    LET rest == it.current_iterator[1]
        n == Min(pool_chunk + 1, Len(rest))
    IN  [it EXCEPT !.current_iterator = Some(SubSeq(rest, n + 1, Len(rest))),
                   !.random_pool = it.random_pool \o SubSeq(rest, 1, n)]

\* the loop of NetworkIterator::fill_random_pool (network.rs 287-295): the
\* iterator once the loop has moved addresses from the current network to
\* the pool (current_iterator is Some when it is called).  The loop runs
\* pool_chunk times: RANDOM_POOL_CHUNK in the program, and also smaller
\* numbers in the model, so that networks of the model exceed it.
fill_loop(it) ==
    LET rest == it.current_iterator[1]
        n == Min(pool_chunk, Len(rest))
    IN  [it EXCEPT !.current_iterator = Some(SubSeq(rest, n + 1, Len(rest))),
                   !.random_pool = it.random_pool \o SubSeq(rest, 1, n)]

\* NetworkIterator::fill_random_pool: the iterators the call can leave, one
\* for each outcome of the shuffle
fill_random_pool(it) ==
    LET looped == fill_loop(it)
    IN  {[looped EXCEPT !.random_pool = p] : p \in Shuffles(looped.random_pool)}

\* Vec::pop of the random pool
pool_pop(it) ==
    IF it.random_pool = << >>
    THEN [it |-> it, ip |-> None]
    ELSE [it |-> [it EXCEPT !.random_pool = SubSeq(it.random_pool, 1, Len(it.random_pool) - 1)],
          ip |-> Some(it.random_pool[Len(it.random_pool)])]

\* next() without the advance to the next network at the end of the current one
Mutant_NetworkIteratorNext(it, random) ==
    IF has_no_items_left(it)
    THEN {[it |-> it, ip |-> None]}
    ELSE LET selected == IF it.current_iterator = None /\ it.networks # << >>
                         THEN select_new_iterator(it) ELSE it
             filled == IF random /\ selected.random_pool = << >>
                       THEN fill_random_pool(selected) ELSE {selected}
         IN  {IF random THEN pool_pop(f) ELSE pop_next_iterator_address(f) : f \in filled}

\* Iterator::next of NetworkIterator (network.rs 317-342): the outcomes of
\* one call, each the iterator after the call and the value returned
NetworkIteratorNext(it, random) ==
    IF has_no_items_left(it)
    THEN {[it |-> it, ip |-> None]}
    ELSE LET selected == IF it.current_iterator = None /\ it.networks # << >>
                         THEN select_new_iterator(it) ELSE it
             filled == IF random /\ selected.random_pool = << >>
                       THEN fill_random_pool(selected) ELSE {selected}
         IN  {LET popped == IF random THEN pool_pop(f) ELSE pop_next_iterator_address(f)
              IN  IF popped.ip = None /\ popped.it.networks # << >>
                  THEN pop_next_iterator_address(select_new_iterator(popped.it))
                  ELSE popped
              : f \in filled}

\* the length of random_pool after lines 323-329 of next(), before the pop
PoolAfterFill(it, random) ==
    IF has_no_items_left(it)
    THEN Len(it.random_pool)
    ELSE LET selected == IF it.current_iterator = None /\ it.networks # << >>
                         THEN select_new_iterator(it) ELSE it
         IN  IF random /\ selected.random_pool = << >>
             THEN Len(fill_loop(selected).random_pool)
             ELSE Len(selected.random_pool)

TheIterator ==
    [current_iterator |-> current_iterator, networks |-> networks, random_pool |-> random_pool]

\* NetworkIterator::new (network.rs 257-274) over the lists and modes given
IterInit(lists, modes, chunks) ==
    /\ cidrs \in lists
    /\ is_random \in modes
    /\ pool_chunk \in chunks
    /\ networks \in (IF is_random THEN Shuffles(cidrs) ELSE {cidrs})
    /\ current_iterator = None
    /\ random_pool = << >>
    /\ yielded = << >>
    /\ last_next = None
    /\ ended = FALSE
    /\ calls_after_none = 0
    /\ pool_peak = 0

\* one call of next()
IterNext ==
    /\ calls_after_none < MaxCallsAfterNone
    /\ \E r \in NetworkIteratorNext(TheIterator, is_random) :
        /\ current_iterator' = r.it.current_iterator
        /\ networks' = r.it.networks
        /\ random_pool' = r.it.random_pool
        /\ last_next' = r.ip
        /\ yielded' = IF r.ip = None THEN yielded ELSE Append(yielded, r.ip[1])
        /\ ended' = (ended \/ r.ip = None)
    /\ calls_after_none' = IF ended THEN calls_after_none + 1 ELSE calls_after_none
    /\ pool_peak' = IF PoolAfterFill(TheIterator, is_random) > pool_peak
                    THEN PoolAfterFill(TheIterator, is_random) ELSE pool_peak
    /\ UNCHANGED <<is_random, pool_chunk, cidrs, scanVars, callVars>>

(***************************************************************************)
(* network.rs compute_network_configuration 98-103: the networks that the  *)
(* options and the interface configure for the scan.                       *)
(***************************************************************************)
ConfiguredNetworks(interface, options) ==
    IF options.network_range # None THEN options.network_range[1] ELSE interface.ips

RECURSIVE ConcatAddresses(_)
ConcatAddresses(nets) ==
    IF nets = << >> THEN << >>
    ELSE NetworkAddresses(Head(nets)) \o ConcatAddresses(Tail(nets))

(***************************************************************************)
(* Specifications.                                                         *)
(***************************************************************************)
vars == <<scanVars, iterVars, callVars>>

Options(retries, timeouts, randoms, ranges, resolves, outputs, timings) ==
    {[retry_count |-> r, timeout_ms |-> t, randomize_targets |-> z, network_range |-> n,
      resolve_hostname |-> h, output |-> o, scan_timing |-> g, has_vlan |-> FALSE] :
        r \in retries, t \in timeouts, z \in randoms, n \in ranges, h \in resolves,
        o \in outputs, g \in timings}

\* interfaces with one IPv4 network, of every size of the model
Interfaces ==
    {[ips |-> <<[ip |-> 1, prefix |-> p]>>] : p \in (AddrBits - MaxHostBits)..AddrBits}

\* a NetworkIterator that is never called
IterIdle == IterInit({<< >>}, {FALSE}, {RANDOM_POOL_CHUNK})

\* a scan that never starts
ScanIdle ==
    ScanInit(Options({0}, {0}, {FALSE}, {None}, {FALSE}, {"Json"}, {Interval(10)}),
             {[ips |-> <<[ip |-> 1, prefix |-> AddrBits]>>]}, {FALSE}, {{}}, {0})

ScanNext == MainStep \/ RxStep \/ FatalStep \/ Interrupt

\* an ARP reply and a frame of another protocol
ReplyFrame ==
    [len |-> ETHERNET_STD_PACKET_SIZE, ethertype |-> EtherTypeArp, op |-> ArpOperationReply,
     spa |-> 1, sha |-> 1]
OtherFrame ==
    [len |-> ETHERNET_STD_PACKET_SIZE, ethertype |-> EtherTypeIpv4, op |-> 0, spa |-> 0, sha |-> 0]

\* the scan under every retry count, timeout and order, with one frame on the link
Init ==
    /\ ScanInit(Options(0..MaxRetry, TimeoutValues, BOOLEAN,
                        {None, Some(<<[ip |-> 0, prefix |-> AddrBits]>>)},
                        {FALSE}, {"Plain", "Json"}, {Interval(10)}),
                Interfaces, {TRUE}, {{ReplyFrame, OtherFrame}}, {1})
    /\ IterIdle
    /\ CallIdle

Next == ScanNext

Spec == Init /\ [][Next]_vars

\* the receiver under every sequence of frames of the link, beside a scan
\* of one address
InitRx ==
    /\ ScanInit(Options({1}, {DRAIN_CHUNK_MS}, {FALSE}, {None}, {FALSE}, {"Json"},
                        {Interval(10)}),
                {[ips |-> <<[ip |-> 1, prefix |-> AddrBits]>>]}, {TRUE}, {Frames}, {MaxFrames})
    /\ IterIdle
    /\ CallIdle

SpecRx == InitRx /\ [][ScanNext]_vars

\* the lists of at most MaxNetworks networks
NetworkLists == UNION {[1..n -> Networks] : n \in 0..MaxNetworks}

\* the sequential iterator over every list of networks
InitIter == IterInit(NetworkLists, {FALSE}, {RANDOM_POOL_CHUNK}) /\ ScanIdle /\ CallIdle

SpecIter == InitIter /\ [][IterNext]_vars

\* networks of up to 2^MaxRandomHostBits addresses
RandomNetworks ==
    {[ip |-> a, prefix |-> p] :
        a \in Addresses,
        p \in (IF AddrBits > MaxRandomHostBits THEN AddrBits - MaxRandomHostBits ELSE 0)..AddrBits}

RandomNetworkLists == UNION {[1..n -> RandomNetworks] : n \in 0..MaxNetworks}

\* the chunk of the program and the scaled-down ones
PoolChunks == (1..MaxPoolChunk) \cup {RANDOM_POOL_CHUNK}

\* the iterator in both modes, called until it has returned None and
\* MaxCallsAfterNone times more
InitIterAll == IterInit(RandomNetworkLists, BOOLEAN, PoolChunks) /\ ScanIdle /\ CallIdle

SpecIterAll == InitIterAll /\ [][IterNext]_vars

\* the largest network and a single address, neither given by its network
\* address
LiveNetworks ==
    {[ip |-> Pow2(AddrBits) - 1, prefix |-> p] :
        p \in {IF AddrBits > MaxRandomHostBits THEN AddrBits - MaxRandomHostBits ELSE 0, AddrBits}}

LiveNetworkLists == UNION {[1..n -> LiveNetworks] : n \in 0..MaxNetworks}

\* the iterator in both modes, with a caller that goes on calling next();
\* the chunks are those the largest network exceeds
InitIterLive ==
    IterInit(LiveNetworkLists, BOOLEAN, {MaxPoolChunk - 1, MaxPoolChunk}) /\ ScanIdle /\ CallIdle

SpecIterLive == InitIterLive /\ [][IterNext]_vars /\ WF_vars(IterNext)

\* the scan with the two threads scheduled fairly and every read of the
\* receiver returning, by a frame or by the read-timeout; no I/O fails
InitLive ==
    /\ ScanInit(Options(0..MaxRetry, TimeoutValues, {FALSE}, {None}, {FALSE}, {"Json"},
                        {Interval(10)}),
                Interfaces, {FALSE}, {{ReplyFrame}}, {0, 1})
    /\ IterIdle
    /\ CallIdle

LiveNext == MainStep \/ RxStep \/ Interrupt

SpecLive == InitLive /\ [][LiveNext]_vars /\ WF_vars(MainStep) /\ WF_vars(RxStep)

\* an interval, a bandwidth that the planner accepts and one it aborts on
SendTimings == {Interval(0), Interval(10), Bandwidth(1000), Bandwidth(42000)}

\* the scan in both timing modes, over a link whose sends can fail
InitSend ==
    /\ ScanInit(Options(0..MaxRetry, {0, DRAIN_CHUNK_MS}, {FALSE}, {None}, {FALSE},
                        {"Plain", "Json"}, SendTimings),
                Interfaces, {TRUE}, {{ReplyFrame}}, {1})
    /\ IterIdle
    /\ CallIdle

SendNext == ScanNext \/ MainSendFails

SpecSend == InitSend /\ [][SendNext]_vars

(***************************************************************************)
(* Claims on the sender loop and the drain sleep, under Spec.              *)
(***************************************************************************)

\* C3: at most one request is sent after the interrupt flag is set (the one
\* whose flag check preceded the set), and once that request is sent the
\* sender never stands before another emission.
C3_AtMostOneSendAfterInterrupt ==
    /\ sent_after_interrupt <= 1
    /\ (finish_sleep /\ mainPc = "send") => sent_after_interrupt = 0

\* an interrupt between the check and the send of the first address of the
\* first pass: one request follows, the rest of the pass and the next pass do not
C3_Witness ==
    /\ sent_after_interrupt = 1
    /\ mainPc = "drain_check"
    /\ ip_addresses # << >>
    /\ scan_options.retry_count = MaxRetry

\* the addresses of the configured networks, in order
ConfiguredAddresses == ConcatAddresses(ConfiguredNetworks(selected_interface, scan_options))

\* C8: an uninterrupted scan has made retry_count passes when the drain
\* begins, each pass has sent one request for each address of the configured
\* networks (as a multiset), and with retry_count = 0 nothing is sent and the
\* drain still runs.
C8_PassesCoverConfiguredNetworks ==
    /\ (scan_options.retry_count = 0) => (process # "panic" /\ sent_after_stop = 0)
    /\ (mainPc = "drain_check" /\ ~finish_sleep) =>
          /\ retry = scan_options.retry_count
          /\ \A pass \in 0..(MaxRetry - 1) : \A a \in Addresses :
                sent[<<pass, a>>] = IF pass < scan_options.retry_count
                                    THEN Count(ConfiguredAddresses, a) ELSE 0

\* C9: timed_out is set after the last request, and without an interrupt
\* after a drain sleep of whole chunks that has reached timeout_ms and
\* exceeds it by less than one chunk (0 when timeout_ms = 0).
C9_DrainBeforeStop ==
    /\ sent_after_stop = 0
    /\ (sleep_at_stop # None /\ ~sleep_at_stop[1].interrupted) =>
          /\ retry = scan_options.retry_count
          /\ sleep_at_stop[1].slept % DRAIN_CHUNK_MS = 0
          /\ sleep_at_stop[1].slept >= scan_options.timeout_ms
          /\ sleep_at_stop[1].slept - scan_options.timeout_ms < DRAIN_CHUNK_MS
          /\ (scan_options.timeout_ms = 0 => sleep_at_stop[1].slept = 0)

\* a timeout of one chunk and 1 ms: the flag is set after two chunks, and
\* after the requests
C9_Witness ==
    /\ timed_out
    /\ sleep_at_stop = Some([slept |-> 2 * DRAIN_CHUNK_MS, interrupted |-> FALSE])
    /\ scan_options.timeout_ms = DRAIN_CHUNK_MS + 1
    /\ scan_options.retry_count = MaxRetry
    /\ \A a \in Range(NetworkAddresses(ip_network)) : sent[<<MaxRetry - 1, a>>] = 1

(***************************************************************************)
(* Claims on the sends and the sleeps between them, under SpecSend.        *)
(***************************************************************************)
\* C24: a send that fails is fatal, as a read that fails is: the scan stops
\* with exit code 1 and the sender makes no further step.
C24_SendFailureIsFatal ==
    send_failed => process = "exit1"

\* the number of requests handed to the link so far
Emitted ==
    LET RECURSIVE Sum(_)
        Sum(keys) == IF keys = {} THEN 0
                     ELSE LET k == CHOOSE x \in keys : TRUE
                          IN  sent[k] + Sum(keys \ {k})
    IN  Sum(DOMAIN sent)

\* the estimation of the planner for the scan
ScanEstimation == compute_scan_estimation(compute_network_size(ip_network), scan_options)

\* C27: every request is followed by a sleep, the last of a pass too, and
\* each sleep lasts the effective interval of the planner: the interval
\* given in interval mode, the derived one in bandwidth mode.
C27_SleepsEffectiveInterval ==
    /\ Len(interval_sleeps) = IF mainPc = "interval_sleep" THEN Emitted - 1 ELSE Emitted
    /\ ScanEstimation # Panic =>
            \A i \in DOMAIN interval_sleeps : interval_sleeps[i] = ScanEstimation.interval_ms

(***************************************************************************)
(* Claims on the receiver, under SpecRx.                                   *)
(***************************************************************************)
LateAccepted == {i \in DOMAIN accepted : accepted[i].after_stop}

\* C4 as stated: no frame read after timed_out was set reaches the map.
C4_NoFrameAfterStop == LateAccepted = {}

\* C4 as amended: at most one frame read after timed_out was set reaches the
\* map (the frame of the read that follows the last loop-head check that
\* found the flag clear); it is the last frame the receiver handles.
C4_AtMostOneFrameAfterStop ==
    /\ Cardinality(LateAccepted) <= 1
    /\ \A i \in LateAccepted : i = Len(accepted)
    /\ (rxPc \in {"enrich", "returned"} /\ LateAccepted # {}) => reads_after_stop = 1

\* timed_out is set while the receiver is in its read; the read returns an
\* ARP frame, whose sender is among the returned targets
C4_Witness ==
    /\ rxPc = "returned"
    /\ Len(accepted) = 1 /\ accepted[1].after_stop
    /\ Len(rxResult[1].target_details) = 1
    /\ rxResult[1].target_details[1].ipv4 = accepted[1].spa

\* C5: only ARP replies create or overwrite a target.
C5_OnlyRepliesInserted ==
    \A i \in DOMAIN accepted : accepted[i].op = ArpOperationReply

\* C6: packet_count >= arp_count >= number of targets, in the receiver and
\* in what it returns, and a read that ends with the read-timeout (a return
\* to the loop head without a frame taken from the link) changes neither
\* counter nor the map.
C6_CountersOrdered ==
    /\ [](/\ packet_count >= arp_count
          /\ arp_count >= Cardinality(DOMAIN discover_map)
          /\ rxResult # None =>
                /\ rxResult[1].response_summary.packet_count >= rxResult[1].response_summary.arp_count
                /\ rxResult[1].response_summary.arp_count >= Len(rxResult[1].target_details))
    /\ [][(rxPc = "read" /\ rxPc' = "check" /\ frames_left' = frames_left)
            => UNCHANGED <<packet_count, arp_count, discover_map>>]_vars

\* a frame of another protocol, a truncated ARP frame and an ARP frame:
\* the three numbers differ in the result
C6_Witness ==
    /\ rxResult # None
    /\ rxResult[1].response_summary.packet_count = 3
    /\ rxResult[1].response_summary.arp_count = 2
    /\ Len(rxResult[1].target_details) = 1

\* the last frame accepted from the sender address ip
LastAccepted(ip) ==
    LET from == {i \in DOMAIN accepted : accepted[i].spa = ip}
    IN  accepted[CHOOSE i \in from : \A j \in from : j <= i]

C25_ArpCountIsInserted ==
    arp_count = Len(accepted)

\* C23: a failure of the enrichment is not fatal: while the receiver
\* enriches its targets, with or without a vendor database and whatever the
\* lookups meet, the process is not ended with exit code 1, and what the
\* receiver returns holds every target of the map.
C23_EnrichmentNeverFatal ==
    /\ [][(rxPc = "enrich" /\ process = "running") => process' # "exit1"]_vars
    /\ [](rxResult # None =>
            {rxResult[1].target_details[i].ipv4 : i \in DOMAIN rxResult[1].target_details}
                = DOMAIN discover_map)

(***************************************************************************)
(* Claims on cancellation and termination, under SpecLive.                 *)
(***************************************************************************)

\* C1: once timed_out is set the receiver finishes at most one read, leaves
\* its loop and returns, and the join of main completes, frames or not.
C1_ReceiverStops ==
    /\ [](reads_after_stop <= 1)
    /\ timed_out ~> (rxPc = "returned")
    /\ timed_out ~> (mainPc \in {"format", "done"})

\* no frame ever arrived; the read in progress ended with the read-timeout
\* after the flag was set, and the join completed
C1_Witness ==
    /\ mainPc = "done"
    /\ frames_left = 0 /\ packet_count = 0
    /\ reads_after_stop = 1

CidrAddresses(net) ==
    {a \in Addresses :
        a \div Pow2(AddrBits - net.prefix) = net.ip \div Pow2(AddrBits - net.prefix)}

\* a set of addresses in ascending order
RECURSIVE Ascending(_)
Ascending(set) ==
    IF set = {} THEN << >>
    ELSE LET least == CHOOSE a \in set : \A b \in set : a <= b
         IN  <<least>> \o Ascending(set \ {least})

RECURSIVE InOrder(_)
InOrder(nets) ==
    IF nets = << >> THEN << >>
    ELSE Ascending(CidrAddresses(Head(nets))) \o InOrder(Tail(nets))

\* C10: the sequential iterator yields the addresses of the networks in the
\* order given, ascending within each network from its network address,
\* each once, and returns None only after the last of them.
C10_SequentialOrder ==
    ~is_random =>
        /\ Len(yielded) <= Len(InOrder(cidrs))
        /\ yielded = SubSeq(InOrder(cidrs), 1, Len(yielded))
        /\ ended => yielded = InOrder(cidrs)
        /\ last_next # None => last_next[1] = yielded[Len(yielded)]
        /\ (ended /\ calls_after_none > 0) => last_next = None

\* a network given by an address that is not its network address, then a
\* single address: all are yielded, then None, twice
C10_Witness ==
    /\ ~is_random
    /\ cidrs = <<[ip |-> 1, prefix |-> AddrBits - 1], [ip |-> 0, prefix |-> AddrBits]>>
    /\ yielded = <<0, 1, 0>>
    /\ ended /\ calls_after_none = 1


(***************************************************************************)
(* Claims on the range iterator in both modes.                             *)
(***************************************************************************)
NewIterator(list) ==
    [current_iterator |-> None, networks |-> list, random_pool |-> << >>]

\* the addresses that the sequential iterator yields from it on, in order
RECURSIVE SequentialDrain(_)
SequentialDrain(it) ==
    LET r == CHOOSE x \in NetworkIteratorNext(it, FALSE) : TRUE
    IN  IF r.ip = None THEN << >> ELSE <<r.ip[1]>> \o SequentialDrain(r.it)

\* C11: the random iterator yields the multiset of addresses that the
\* sequential iterator yields over the same list: no address more often at
\* any time, and every address as often once next() has returned None.
C11_RandomSameMultiset ==
    is_random =>
        LET sequential == SequentialDrain(NewIterator(cidrs))
        IN  /\ \A a \in Addresses : Count(yielded, a) <= Count(sequential, a)
            /\ ended => \A a \in Addresses : Count(yielded, a) = Count(sequential, a)

\* a list with a duplicate of a network that is twice the chunk, yielded to
\* the end in another order than the sequential one
C11_Witness ==
    /\ is_random /\ ended
    /\ Len(cidrs) = 2 /\ cidrs[1] = cidrs[2]
    /\ network_size(cidrs[1]) = 2 * pool_chunk
    /\ yielded # SequentialDrain(NewIterator(cidrs))

\* fill_random_pool would unwrap a current_iterator that is None
FillWouldPanic ==
    /\ is_random /\ random_pool = << >> /\ ~has_no_items_left(TheIterator)
    /\ current_iterator = None /\ networks = << >>

\* C12: in both modes next() returns None after at most one call for each
\* address of the list (at once for the empty list), every later call
\* returns None and yields nothing, and no call panics.
C12_FiniteNotRestartable ==
    /\ <>ended
    /\ [](Len(yielded) <= Len(ConcatAddresses(cidrs)))
    /\ [](cidrs = << >> => yielded = << >>)
    /\ [](~FillWouldPanic)
    /\ [][ended => (last_next' = None /\ yielded' = yielded)]_vars

\* next() was called again after its first None, at the end of a list of
\* two networks
C12_Witness ==
    /\ ended /\ calls_after_none = MaxCallsAfterNone
    /\ Len(cidrs) = 2 /\ Len(yielded) = Len(ConcatAddresses(cidrs))

\* C13: the random pool never holds more than the chunk, which is at most
\* 1000; it holds addresses of one network of the list; it grows only when
\* it was empty; the sequential iterator leaves it empty.
C13_PoolBounded ==
    /\ [](pool_peak <= pool_chunk /\ pool_chunk <= RANDOM_POOL_CHUNK)
    /\ [](Len(random_pool) <= pool_peak)
    /\ [](random_pool # << >> =>
            \E i \in DOMAIN cidrs : Range(random_pool) \subseteq Range(NetworkAddresses(cidrs[i])))
    /\ [](~is_random => (random_pool = << >> /\ pool_peak = 0))
    /\ [][Len(random_pool') >= Len(random_pool) => random_pool = << >>]_vars

\* the pool was filled to the chunk from a network larger than the chunk
C13_Witness ==
    /\ is_random /\ pool_peak = pool_chunk
    /\ \E i \in DOMAIN cidrs : network_size(cidrs[i]) > pool_chunk
    /\ random_pool # << >>

\* C26: in random mode every address that next() returns is popped from the
\* shuffled pool: the pool holds an address after the fill, and one less
\* after the call; no address leaves a network iterator for the caller
\* directly.
C26_AllFromPool ==
    [][(is_random /\ Len(yielded') > Len(yielded)) =>
          /\ PoolAfterFill(TheIterator, is_random) >= 1
          /\ Len(random_pool') = PoolAfterFill(TheIterator, is_random) - 1]_vars

(***************************************************************************)
(* The frame encoder, network.rs send_arp_request.  A frame is its         *)
(* sequence of bytes; a MAC address is 6 bytes, an IPv4 address 4.         *)
(***************************************************************************)
VLAN_QOS_DEFAULT == 1
VLAN_PACKET_SIZE == 32
VLAN_HEADER_SIZE == VLAN_PACKET_SIZE - ARP_PACKET_SIZE
EtherTypeVlan == 33024
ArpHardwareTypeEthernet == 1
HW_ADDR_LEN == 6
PROTO_ADDR_LEN == 4

\* MacAddr::broadcast()
MacBroadcast == <<255, 255, 255, 255, 255, 255>>

\* Option::unwrap_or
unwrap_or(option, default) == IF option = None THEN default ELSE option[1]

\* a u16 field written in network order
U16BE(v) == <<(v \div 256) % 256, v % 256>>

\* vec![0u8; n]
ZeroBuffer(n) == [i \in 1..n |-> 0]

\* the buffer with data copied at the offset (counted from 0)
WriteAt(buffer, offset, data) ==
    [i \in DOMAIN buffer |->
        IF i > offset /\ i <= offset + Len(data) THEN data[i - offset] ELSE buffer[i]]

\* the 28 bytes that the setters of MutableArpPacket leave (network.rs 204-218)
ArpPacketBytes(source_mac, source_ip, target_mac, target_ip, options) ==
    U16BE(unwrap_or(options.hw_type, ArpHardwareTypeEthernet))
    \o U16BE(unwrap_or(options.proto_type, EtherTypeIpv4))
    \o <<unwrap_or(options.hw_addr, HW_ADDR_LEN), unwrap_or(options.proto_addr, PROTO_ADDR_LEN)>>
    \o U16BE(unwrap_or(options.arp_operation, ArpOperationRequest))
    \o source_mac \o source_ip \o target_mac \o target_ip

\* MutableVlanPacket setters on the two bytes of the tag control field: each
\* writes its own bits and keeps the others; the identifier is a 12-bit
\* field, of a u16 value its low 12 bits are written
set_vlan_identifier(tci, val) ==
    <<(tci[1] \div 16) * 16 + ((val % 4096) \div 256), val % 256>>

set_priority_code_point(tci, pcp) ==
    <<(pcp % 8) * 32 + (tci[1] % 32), tci[2]>>

set_drop_eligible_indicator(tci, dei) ==
    <<(tci[1] \div 32) * 32 + (dei % 2) * 16 + (tci[1] % 16), tci[2]>>

\* the 32 bytes of the VLAN packet (network.rs 222-232)
VlanPacketBytes(vlan_id, arp_bytes) ==
    LET tci == set_drop_eligible_indicator(
                   set_priority_code_point(
                       set_vlan_identifier(<<0, 0>>, vlan_id), VLAN_QOS_DEFAULT), 0)
        header == WriteAt(WriteAt(ZeroBuffer(VLAN_PACKET_SIZE), 0, tci), 2, U16BE(EtherTypeArp))
    IN  WriteAt(header, VLAN_HEADER_SIZE, arp_bytes)

\* the target hardware address is left at zero
Mutant_send_arp_request(interface_mac, source_ip, target_ip, options) ==
    IF options.source_mac = None /\ interface_mac = None
    THEN [sent |-> FALSE, frame |-> << >>]
    ELSE LET target_mac == unwrap_or(options.destination_mac, MacBroadcast)
             source_mac == unwrap_or(options.source_mac, unwrap_or(interface_mac, << >>))
             arp_bytes == ArpPacketBytes(source_mac, source_ip, ZeroBuffer(6), target_ip, options)
             header == target_mac \o source_mac
                       \o U16BE(IF options.vlan_id # None THEN EtherTypeVlan ELSE EtherTypeArp)
             buffer == ZeroBuffer(IF options.vlan_id # None THEN ETHERNET_VLAN_PACKET_SIZE
                                                           ELSE ETHERNET_STD_PACKET_SIZE)
             payload == IF options.vlan_id # None
                        THEN VlanPacketBytes(options.vlan_id[1], arp_bytes) ELSE arp_bytes
         IN  [sent |-> TRUE,
              frame |-> WriteAt(WriteAt(buffer, 0, header), ETHERNET_HEADER_SIZE, payload)]

\* send_arp_request (network.rs 172-241): the frame handed to the sender,
\* or no frame when the process exits for want of a source MAC address
send_arp_request(interface_mac, source_ip, target_ip, options) ==
    IF options.source_mac = None /\ interface_mac = None
    THEN [sent |-> FALSE, frame |-> << >>]
    ELSE LET target_mac == unwrap_or(options.destination_mac, MacBroadcast)
             source_mac == unwrap_or(options.source_mac, unwrap_or(interface_mac, << >>))
             arp_bytes == ArpPacketBytes(source_mac, source_ip, target_mac, target_ip, options)
             header == target_mac \o source_mac
                       \o U16BE(IF options.vlan_id # None THEN EtherTypeVlan ELSE EtherTypeArp)
             buffer == ZeroBuffer(IF options.vlan_id # None THEN ETHERNET_VLAN_PACKET_SIZE
                                                           ELSE ETHERNET_STD_PACKET_SIZE)
             payload == IF options.vlan_id # None
                        THEN VlanPacketBytes(options.vlan_id[1], arp_bytes) ELSE arp_bytes
         IN  [sent |-> TRUE,
              frame |-> WriteAt(WriteAt(buffer, 0, header), ETHERNET_HEADER_SIZE, payload)]

\* the inputs of the encoder: every option forced or left to its default
MacValues == {<<2, 0, 0, 0, 0, 1>>, <<222, 173, 190, 239, 0, 255>>}

Ipv4Values == {<<192, 168, 1, 1>>, <<10, 0, 255, 254>>}

VlanIds == {0, 1, 100, 4095, 4096, 65535}

EncoderOptions ==
    [destination_mac : {None, Some(<<1, 2, 3, 4, 5, 6>>)},
     source_mac : {None, Some(<<2, 0, 0, 0, 0, 1>>)},
     vlan_id : {None} \cup {Some(v) : v \in VlanIds},
     hw_type : {None, Some(6)},
     hw_addr : {None, Some(8)},
     proto_type : {None, Some(34525)},
     proto_addr : {None, Some(16)},
     arp_operation : {None, Some(ArpOperationReply)}]

EncoderCalls ==
    [interface_mac : {None} \cup {Some(m) : m \in MacValues},
     source_ip : {<<192, 168, 1, 10>>},
     target_ip : Ipv4Values,
     options : EncoderOptions]

InitEncode ==
    /\ call_args \in {Some(c) : c \in EncoderCalls}
    /\ call_result = None /\ SingleCall
    /\ IterIdle /\ ScanIdle

\* one call of send_arp_request
CallEncode ==
    /\ call_args # None /\ call_result = None
    /\ call_result' = Some(send_arp_request(call_args[1].interface_mac, call_args[1].source_ip,
                                            call_args[1].target_ip, call_args[1].options))
    /\ UNCHANGED <<call_args, call_log, vendor_list, scanVars, iterVars>>

SpecEncode == InitEncode /\ [][CallEncode]_vars

(***************************************************************************)
(* Claims on the encoder, under SpecEncode.                                *)
(***************************************************************************)
\* the encoder returned a frame
Encoded == call_result # None /\ call_result[1].sent

\* the ARP payload the claims expect for the call: the options or the
\* defaults 1 / 0x0800 / 6 / 4 / 1, sha the Ethernet source, spa the source
\* address, tha the Ethernet destination, tpa the target address
ExpectedArpPayload ==
    LET a == call_args[1]
        o == a.options
        dst == IF o.destination_mac = None THEN <<255, 255, 255, 255, 255, 255>>
                                          ELSE o.destination_mac[1]
        src == IF o.source_mac = None THEN a.interface_mac[1] ELSE o.source_mac[1]
        htype == IF o.hw_type = None THEN 1 ELSE o.hw_type[1]
        ptype == IF o.proto_type = None THEN 2048 ELSE o.proto_type[1]
        hlen == IF o.hw_addr = None THEN 6 ELSE o.hw_addr[1]
        plen == IF o.proto_addr = None THEN 4 ELSE o.proto_addr[1]
        op == IF o.arp_operation = None THEN 1 ELSE o.arp_operation[1]
    IN  <<htype \div 256, htype % 256, ptype \div 256, ptype % 256, hlen, plen,
          op \div 256, op % 256>> \o src \o a.source_ip \o dst \o a.target_ip

\* the Ethernet addresses the claims expect: destination, then source
ExpectedEthernetAddresses ==
    LET a == call_args[1]
        o == a.options
    IN  (IF o.destination_mac = None THEN <<255, 255, 255, 255, 255, 255>>
                                     ELSE o.destination_mac[1])
        \o (IF o.source_mac = None THEN a.interface_mac[1] ELSE o.source_mac[1])

\* C14: a frame encoded without a VLAN id is 42 bytes: destination and
\* source address, ethertype 08 06, then the 28 bytes of the ARP payload.
C14_UntaggedFrame ==
    (Encoded /\ call_args[1].options.vlan_id = None) =>
        LET frame == call_result[1].frame
        IN  /\ Len(frame) = 42
            /\ SubSeq(frame, 1, 12) = ExpectedEthernetAddresses
            /\ SubSeq(frame, 13, 14) = <<8, 6>>
            /\ Len(ExpectedArpPayload) = 28
            /\ SubSeq(frame, 15, 42) = ExpectedArpPayload

\* an untagged frame with every option forced
C14_Witness ==
    /\ Encoded
    /\ \A f \in DOMAIN call_args[1].options :
          (f = "vlan_id") = (call_args[1].options[f] = None)

\* C15: a frame encoded with VLAN id v is 46 bytes: the addresses, 81 00,
\* the 16 bits PCP = 1, DEI = 0, VID = v, then 08 06 and the ARP payload of
\* the untagged frame.
C15_TaggedFrame ==
    (Encoded /\ call_args[1].options.vlan_id # None) =>
        LET frame == call_result[1].frame
            v == call_args[1].options.vlan_id[1]
        IN  /\ Len(frame) = 46
            /\ SubSeq(frame, 1, 12) = ExpectedEthernetAddresses
            /\ SubSeq(frame, 13, 14) = <<129, 0>>
            /\ frame[15] * 256 + frame[16] = 1 * 8192 + 0 * 4096 + v
            /\ SubSeq(frame, 17, 18) = <<8, 6>>
            /\ SubSeq(frame, 19, 46) = ExpectedArpPayload

(***************************************************************************)
(* The timing planner called on its own, network.rs                        *)
(* compute_scan_estimation.                                                *)
(***************************************************************************)
HostCounts == {0, 1, 2, 256}

IntervalValues == {0, 10, 20}

BandwidthValues == {0, 336, 42000, 336000}

PlannerCalls ==
    [host_count : HostCounts,
     options : [timeout_ms : {0, 800, 2000},
                has_vlan : BOOLEAN,
                retry_count : 0..MaxRetry,
                scan_timing : {Interval(i) : i \in IntervalValues}
                              \cup {Bandwidth(b) : b \in BandwidthValues}]]

InitPlan ==
    /\ call_args \in {Some(c) : c \in PlannerCalls}
    /\ call_result = None /\ SingleCall
    /\ IterIdle /\ ScanIdle

\* one call of compute_scan_estimation
CallPlan ==
    /\ call_args # None /\ call_result = None
    /\ call_result' = Some(compute_scan_estimation(call_args[1].host_count, call_args[1].options))
    /\ UNCHANGED <<call_args, call_log, vendor_list, scanVars, iterVars>>

SpecPlan == InitPlan /\ [][CallPlan]_vars

(***************************************************************************)
(* Claims on the planner, under SpecPlan.                                  *)
(***************************************************************************)
\* the planner was called in the mode given and the call is over
Planned(mode) ==
    call_result # None /\ call_args[1].options.scan_timing.mode = mode

\* the size in bytes of one request of the call
PacketSize == IF call_args[1].options.has_vlan THEN 46 ELSE 42

\* C16: in interval mode the planner returns the interval given, the
\* request size host_count x packet size, the bandwidth request_size x 1000
\* / request_phase_ms and the duration request_phase_ms + timeout_ms + 500,
\* with request_phase_ms = host_count x (3 + interval) x retry_count.
C16_IntervalMode ==
    Planned("Interval") =>
        LET a == call_args[1]
            interval == a.options.scan_timing.value
            request_size == a.host_count * PacketSize
            request_phase_ms == a.host_count * (3 + interval) * a.options.retry_count
        IN  /\ call_result[1] # Panic
            /\ call_result[1].interval_ms = interval
            /\ call_result[1].request_size = request_size
            /\ call_result[1].bandwidth * request_phase_ms <= request_size * 1000
            /\ (call_result[1].bandwidth + 1) * request_phase_ms > request_size * 1000
            /\ call_result[1].duration_ms = request_phase_ms + a.options.timeout_ms + 500

\* the quotient request_phase_ms / retry_count / host_count of bandwidth
\* mode, for a call where each division is defined
PerHostMs ==
    LET a == call_args[1]
    IN  (((a.host_count * PacketSize * 1000) \div a.options.scan_timing.value)
            \div a.options.retry_count) \div a.host_count

\* C17: in bandwidth mode, when request_phase_ms / retry_count / host_count
\* is below 3, the planner returns an estimation whose interval is 0.
C17_IntervalClamped ==
    (/\ Planned("Bandwidth")
     /\ call_args[1].host_count >= 1 /\ call_args[1].options.retry_count >= 1
     /\ call_args[1].options.scan_timing.value >= 1
     /\ PerHostMs < 3) =>
        (call_result[1] # Panic /\ call_result[1].interval_ms = 0)

\* C18: in bandwidth mode the request phase of a returned estimation is the
\* number of bits of the requests x 1000 / bandwidth.
C18_BandwidthInBits ==
    (Planned("Bandwidth") /\ call_result[1] # Panic) =>
        LET a == call_args[1]
            request_bits == a.host_count * PacketSize * 8
        IN  call_result[1].duration_ms - a.options.timeout_ms - 500
                = (request_bits * 1000) \div a.options.scan_timing.value

\* C29: the planner returns an estimation, and does not abort, when
\* retry_count is 0, when host_count is 0 and, in bandwidth mode, when the
\* bandwidth is 0.
C29_NoDivisionByZero ==
    (/\ call_result # None
     /\ \/ call_args[1].options.retry_count = 0
        \/ call_args[1].host_count = 0
        \/ Planned("Bandwidth") /\ call_args[1].options.scan_timing.value = 0) =>
        call_result[1] # Panic

(***************************************************************************)
(* The planner called twice: in interval mode first, then in bandwidth     *)
(* mode on the bandwidth the first call reported (main.rs 137 prints it,   *)
(* --bandwidth takes it back).                                             *)
(***************************************************************************)
RoundTripIntervals == {0, 10, 20, 1000, 50000}

RoundTripCalls ==
    [host_count : HostCounts,
     options : [timeout_ms : {0, 2000},
                has_vlan : BOOLEAN,
                retry_count : 0..MaxRetry,
                scan_timing : {Interval(i) : i \in RoundTripIntervals}]]

InitRoundTrip ==
    /\ call_args \in {Some(c) : c \in RoundTripCalls}
    /\ call_result = None /\ SingleCall
    /\ IterIdle /\ ScanIdle

\* the bandwidth that the first call returned becomes the timing of a second
\* call on the same hosts and options
FeedBack ==
    /\ call_result # None /\ call_log = << >>
    /\ call_result[1] # Panic
    /\ call_log' = <<[args |-> call_args[1], result |-> call_result[1]]>>
    /\ call_args' = Some([call_args[1] EXCEPT
                              !.options.scan_timing = Bandwidth(call_result[1].bandwidth)])
    /\ call_result' = None
    /\ UNCHANGED <<vendor_list, scanVars, iterVars>>

SpecRoundTrip == InitRoundTrip /\ [][CallPlan \/ FeedBack]_vars

(***************************************************************************)
(* Claims on the two modes of the planner, under SpecRoundTrip.            *)
(***************************************************************************)
\* the second call is over, on at least one host and one pass
FedBack ==
    /\ call_log # << >> /\ call_result # None
    /\ call_args[1].host_count >= 1 /\ call_args[1].options.retry_count >= 1

\* the interval given to the first call
FirstInterval == call_log[1].args.options.scan_timing.value

\* C30: for host_count >= 1 and retry_count >= 1, bandwidth mode
\* on the bandwidth that interval mode reported for i returns the effective
\* interval i.
C30_ModesInverse ==
    FedBack => (call_result[1] # Panic /\ call_result[1].interval_ms = FirstInterval)

\* C30, up to rounding: the second call returns an effective interval of at
\* least i, and i itself when (3 + i) x retry_count divides the size of a
\* request x 1000; when the reported bandwidth is 0 it returns nothing.
C30_ModesInverseUpToRounding ==
    FedBack =>
        LET per_pass == (3 + FirstInterval) * call_args[1].options.retry_count
        IN  IF call_log[1].result.bandwidth = 0
            THEN call_result[1] = Panic
            ELSE /\ call_result[1] # Panic
                 /\ call_result[1].interval_ms >= FirstInterval
                 /\ (PacketSize * 1000) % per_pass = 0
                        => call_result[1].interval_ms = FirstInterval

\* a second call that returned a longer interval than the first was given
C30_Witness ==
    FedBack /\ call_result[1] # Panic /\ call_result[1].interval_ms > FirstInterval

(***************************************************************************)
(* The duration parser, time.rs parse_to_milliseconds.  A text is the      *)
(* sequence of its characters.  u64 is modelled with U64Bits bits: a       *)
(* product that does not fit panics in a build with overflow checks and    *)
(* wraps in a build without them.                                          *)
(***************************************************************************)
U64Modulus == Pow2(U64Bits)

Digits == <<"0", "1", "2", "3", "4", "5", "6", "7", "8", "9">>

IsDigit(c) == \E i \in DOMAIN Digits : Digits[i] = c

DigitValue(c) == (CHOOSE i \in DOMAIN Digits : Digits[i] = c) - 1

Ok(value) == [kind |-> "Ok", value |-> value]
Err == [kind |-> "Err", value |-> 0]
Overflowed == [kind |-> "Panic", value |-> 0]

\* the value of a sequence of digits, None once it exceeds the unsigned type
RECURSIVE DecimalValue(_, _)
DecimalValue(digits, acc) ==
    IF digits = << >> THEN Some(acc)
    ELSE LET next == acc * 10 + DigitValue(Head(digits))
         IN  IF next >= U64Modulus THEN None ELSE DecimalValue(Tail(digits), next)

\* str::parse::<u64>: an optional + sign, then one digit or more
ParseU64(text) ==
    LET digits == IF text # << >> /\ Head(text) = "+" THEN Tail(text) ELSE text
    IN  IF digits = << >> \/ \E i \in DOMAIN digits : ~IsDigit(digits[i])
        THEN Err
        ELSE LET value == DecimalValue(digits, 0)
             IN  IF value = None THEN Err ELSE Ok(value[1])

\* a * b in the unsigned type: the product, and whether it overflowed
RECURSIVE Multiply(_, _)
Multiply(a, b) ==
    IF b = 0 THEN [value |-> 0, overflow |-> FALSE]
    ELSE LET half == Multiply(a, b \div 2)
             sum == 2 * half.value + (b % 2) * a
         IN  [value |-> sum % U64Modulus,
              overflow |-> half.overflow \/ sum >= U64Modulus]

\* value * f1 * f2 * ..., left to right: the outcomes the builds can produce
RECURSIVE Scale(_, _, _)
Scale(value, factors, overflow) ==
    IF factors = << >>
    THEN IF overflow THEN {Overflowed, Ok(value)} ELSE {Ok(value)}
    ELSE LET product == Multiply(value, Head(factors))
         IN  Scale(product.value, Tail(factors), overflow \/ product.overflow)

\* str::ends_with
ends_with(text, suffix) ==
    Len(text) >= Len(suffix)
    /\ SubSeq(text, Len(text) - Len(suffix) + 1, Len(text)) = suffix

\* the text without its last n characters
DropLast(text, n) == SubSeq(text, 1, Len(text) - n)

\* ParseU64 then the multiplication by the factors
ParseScaled(text, factors) ==
    IF ParseU64(text).kind = "Ok" THEN Scale(ParseU64(text).value, factors, FALSE) ELSE {Err}

\* parse_to_milliseconds (time.rs 6-46): the outcomes of the call
parse_to_milliseconds(time_arg) ==
    IF ends_with(time_arg, <<"m", "s">>) THEN ParseScaled(DropLast(time_arg, 2), << >>)
    ELSE IF ends_with(time_arg, <<"s">>) THEN ParseScaled(DropLast(time_arg, 1), <<1000>>)
    ELSE IF ends_with(time_arg, <<"m">>) THEN ParseScaled(DropLast(time_arg, 1), <<1000, 60>>)
    ELSE IF ends_with(time_arg, <<"h">>) THEN ParseScaled(DropLast(time_arg, 1), <<1000, 60, 60>>)
    ELSE ParseScaled(time_arg, << >>)

\* the characters of the texts: digits, signs, a point, the suffix letters
\* and another letter
TextCharacters == {"0", "2", "5", "+", "-", ".", "m", "s", "h", "z"}

Texts == UNION {[1..n -> TextCharacters] : n \in 0..MaxTextLen}

InitParse ==
    /\ call_args \in {Some(t) : t \in Texts}
    /\ call_result = None /\ SingleCall
    /\ IterIdle /\ ScanIdle

\* one call of parse_to_milliseconds
CallParse ==
    /\ call_args # None /\ call_result = None
    /\ \E r \in parse_to_milliseconds(call_args[1]) : call_result' = Some(r)
    /\ UNCHANGED <<call_args, call_log, vendor_list, scanVars, iterVars>>

SpecParse == InitParse /\ [][CallParse]_vars

(***************************************************************************)
(* Claim on the duration parser, under SpecParse.                          *)
(***************************************************************************)
\* the suffixes of the claim and their factors; the longest match first
Suffixes == <<<<"m", "s">>, <<"s">>, <<"m">>, <<"h">>, << >>>>
Factors == <<1, 1000, 60000, 3600000, 1>>

\* the first suffix that the text ends with
SuffixOf(text) == CHOOSE i \in DOMAIN Suffixes :
    /\ ends_with(text, Suffixes[i])
    /\ \A j \in 1..(i - 1) : ~ends_with(text, Suffixes[j])

\* the text before the suffix
NumberOf(text) == DropLast(text, Len(Suffixes[SuffixOf(text)]))

\* an unsigned decimal integer: one digit or more, nothing else
IsUnsignedDecimal(text) == text # << >> /\ \A i \in DOMAIN text : IsDigit(text[i])

RECURSIVE DecimalOf(_)
DecimalOf(text) ==
    IF text = << >> THEN 0 ELSE DecimalOf(DropLast(text, 1)) * 10 + DigitValue(text[Len(text)])

\* C20: a text made of an unsigned decimal integer and an optional suffix
\* ms, s, m or h gives the integer multiplied by 1, 1000, 60000 or 3600000;
\* any other text gives an error.
C20_ParseToMilliseconds ==
    call_result # None =>
        LET text == call_args[1]
            factor == Factors[SuffixOf(text)]
        IN  IF IsUnsignedDecimal(NumberOf(text))
            THEN /\ call_result[1].kind = "Ok"
                 /\ call_result[1].value % factor = 0
                 /\ call_result[1].value \div factor = DecimalOf(NumberOf(text))
            ELSE call_result[1].kind = "Err"

(***************************************************************************)
(* The option builder, args.rs ScanOptions::new: the profile, the timeout, *)
(* the retry count, the timing and the two flags.  matches holds the text  *)
(* of each option given on the command line, None when it is not given.    *)
(***************************************************************************)
TIMEOUT_MS_FAST == 800
TIMEOUT_MS_DEFAULT == 2000
HOST_RETRY_DEFAULT == 1

Exit == [kind |-> "Exit", options |-> None]
Panicked == [kind |-> "Panic", options |-> None]

\* args.rs 307-323: the profile named, None for a name that is none
ParseProfile(matches) ==
    IF matches.profile = None THEN Some("Default")
    ELSE IF matches.profile[1] \in {"default", "d"} THEN Some("Default")
    ELSE IF matches.profile[1] \in {"fast", "f"} THEN Some("Fast")
    ELSE IF matches.profile[1] \in {"stealth", "s"} THEN Some("Stealth")
    ELSE IF matches.profile[1] \in {"chaos", "c"} THEN Some("Chaos")
    ELSE None

\* the outcomes of a duration option: parse_to_milliseconds(..).unwrap_or_else
DurationOutcomes(text) ==
    {IF r.kind = "Err" THEN [kind |-> "Exit", value |-> 0] ELSE r : r \in parse_to_milliseconds(text)}

\* the profile is looked at before the flags
Mutant_compute_scan_timing(matches, profile) ==
    IF profile = "Stealth" THEN {Ok(Interval(REQUEST_MS_INTERVAL * 2))}
    ELSE IF profile = "Fast" THEN {Ok(Interval(0))}
    ELSE IF matches.bandwidth # None /\ matches.interval = None
    THEN IF ParseU64(matches.bandwidth[1]).kind = "Ok"
         THEN {Ok(Bandwidth(ParseU64(matches.bandwidth[1]).value))}
         ELSE {[kind |-> "Exit", value |-> 0]}
    ELSE IF matches.bandwidth = None /\ matches.interval # None
    THEN {IF r.kind = "Ok" THEN Ok(Interval(r.value)) ELSE r :
            r \in DurationOutcomes(matches.interval[1])}
    ELSE {Ok(Interval(REQUEST_MS_INTERVAL))}

\* ScanOptions::compute_scan_timing (args.rs 272-292)
compute_scan_timing(matches, profile) ==
    IF matches.bandwidth # None /\ matches.interval = None
    THEN IF ParseU64(matches.bandwidth[1]).kind = "Ok"
         THEN {Ok(Bandwidth(ParseU64(matches.bandwidth[1]).value))}
         ELSE {[kind |-> "Exit", value |-> 0]}
    ELSE IF matches.bandwidth = None /\ matches.interval # None
    THEN {IF r.kind = "Ok" THEN Ok(Interval(r.value)) ELSE r :
            r \in DurationOutcomes(matches.interval[1])}
    ELSE IF profile = "Stealth" THEN {Ok(Interval(REQUEST_MS_INTERVAL * 2))}
    ELSE IF profile = "Fast" THEN {Ok(Interval(0))}
    ELSE {Ok(Interval(REQUEST_MS_INTERVAL))}

\* args.rs 329-338
TimeoutOutcomes(matches, profile) ==
    IF matches.timeout # None THEN DurationOutcomes(matches.timeout[1])
    ELSE IF profile = "Fast" THEN {Ok(TIMEOUT_MS_FAST)}
    ELSE {Ok(TIMEOUT_MS_DEFAULT)}

\* args.rs 399-414
RetryOutcome(matches, profile) ==
    IF matches.retry_count # None
    THEN IF ParseU64(matches.retry_count[1]).kind = "Ok"
         THEN ParseU64(matches.retry_count[1])
         ELSE [kind |-> "Exit", value |-> 0]
    ELSE IF profile = "Chaos" THEN Ok(HOST_RETRY_DEFAULT * 2)
    ELSE Ok(HOST_RETRY_DEFAULT)

\* ScanOptions::new (args.rs 305-470): the outcomes of the call
ScanOptionsNew(matches) ==
    IF ParseProfile(matches) = None THEN {Exit}
    ELSE LET profile == ParseProfile(matches)[1]
             retries == RetryOutcome(matches, profile)
         IN  {IF timeout.kind = "Exit" THEN Exit
              ELSE IF timeout.kind = "Panic" THEN Panicked
              ELSE IF retries.kind = "Exit" THEN Exit
              ELSE IF timing.kind = "Exit" THEN Exit
              ELSE IF timing.kind = "Panic" THEN Panicked
              ELSE [kind |-> "Options",
                    options |-> [profile |-> profile,
                                 timeout_ms |-> timeout.value,
                                 resolve_hostname |-> ~matches.numeric /\ profile # "Stealth",
                                 retry_count |-> retries.value,
                                 scan_timing |-> timing.value,
                                 randomize_targets |-> matches.random
                                                       \/ profile \in {"Stealth", "Chaos"}]]
              : timeout \in TimeoutOutcomes(matches, profile),
                timing \in compute_scan_timing(matches, profile)}

\* the texts given to the options, and what each of them means
ProfileNames == {"default", "d", "fast", "f", "stealth", "s", "chaos", "c", "quick"}

DurationTexts == {<<"5", "s">>, <<"2", "5", "0">>, <<"5", "z">>}

CountTexts == {<<"0">>, <<"5">>, <<"-", "5">>}

\* the command lines: -B and -I conflict (args.rs 121), so at most one of
\* them is given
CommandLines ==
    {m \in [profile : {None} \cup {Some(n) : n \in ProfileNames},
            timeout : {None} \cup {Some(t) : t \in DurationTexts},
            retry_count : {None} \cup {Some(t) : t \in CountTexts},
            interval : {None} \cup {Some(t) : t \in DurationTexts},
            bandwidth : {None} \cup {Some(t) : t \in CountTexts},
            random : BOOLEAN,
            numeric : BOOLEAN] :
        m.interval = None \/ m.bandwidth = None}

InitOptions ==
    /\ call_args \in {Some(m) : m \in CommandLines}
    /\ call_result = None /\ SingleCall
    /\ IterIdle /\ ScanIdle

\* one call of ScanOptions::new
CallOptions ==
    /\ call_args # None /\ call_result = None
    /\ \E r \in ScanOptionsNew(call_args[1]) : call_result' = Some(r)
    /\ UNCHANGED <<call_args, call_log, vendor_list, scanVars, iterVars>>

SpecOptions == InitOptions /\ [][CallOptions]_vars

(***************************************************************************)
(* Claim on the option builder, under SpecOptions.                         *)
(***************************************************************************)
\* the profile that a name stands for
ProfileOf(name) ==
    IF name = None THEN "Default"
    ELSE IF name[1] \in {"default", "d"} THEN "Default"
    ELSE IF name[1] \in {"fast", "f"} THEN "Fast"
    ELSE IF name[1] \in {"stealth", "s"} THEN "Stealth"
    ELSE "Chaos"

\* the table of the profiles: interval, timeout, retry, randomize, resolve
ProfileTable(profile) ==
    IF profile = "Default" THEN <<10, 2000, 1, FALSE, TRUE>>
    ELSE IF profile = "Fast" THEN <<0, 800, 1, FALSE, TRUE>>
    ELSE IF profile = "Stealth" THEN <<20, 2000, 1, TRUE, FALSE>>
    ELSE <<10, 2000, 2, TRUE, TRUE>>

\* the milliseconds of a duration text, the number of a count text
MeaningOf(text) ==
    IF text = <<"5", "s">> THEN 5000
    ELSE IF text = <<"2", "5", "0">> THEN 250
    ELSE IF text = <<"5">> THEN 5
    ELSE 0

\* C19: without flags, the options are those of the profile's row of the
\* table; a timeout, retry, interval or bandwidth that is given is the one
\* of the options, whatever the profile.
C19_ProfileDefaults ==
    (call_result # None /\ call_result[1].kind = "Options") =>
        LET m == call_args[1]
            o == call_result[1].options
            row == ProfileTable(ProfileOf(m.profile))
        IN  /\ (/\ m.timeout = None /\ m.retry_count = None /\ m.interval = None
                 /\ m.bandwidth = None /\ ~m.random /\ ~m.numeric)
                    => /\ o.scan_timing = [mode |-> "Interval", value |-> row[1]]
                       /\ o.timeout_ms = row[2]
                       /\ o.retry_count = row[3]
                       /\ o.randomize_targets = row[4]
                       /\ o.resolve_hostname = row[5]
            /\ m.timeout # None => o.timeout_ms = MeaningOf(m.timeout[1])
            /\ m.retry_count # None => o.retry_count = MeaningOf(m.retry_count[1])
            /\ m.interval # None =>
                    o.scan_timing = [mode |-> "Interval", value |-> MeaningOf(m.interval[1])]
            /\ m.bandwidth # None =>
                    o.scan_timing = [mode |-> "Bandwidth", value |-> MeaningOf(m.bandwidth[1])]

\* the options of the stealth profile without any flag
C19_Witness ==
    /\ call_result # None /\ call_result[1].kind = "Options"
    /\ call_args[1] = [profile |-> Some("stealth"), timeout |-> None, retry_count |-> None,
                        interval |-> None, bandwidth |-> None, random |-> FALSE,
                        numeric |-> FALSE]

(***************************************************************************)
(* The choice of the interface by the orchestrator, main.rs 44-116.  An    *)
(* interface is its name, whether it has a MAC address, whether it is up,  *)
(* whether it is loopback, and the families of its addresses in order.     *)
(***************************************************************************)
MaxInterfaces == 2

MaxInterfaceIps == 2

InterfaceNames == {"eth0", "eth1"}

IpFamilies == {"v4", "v6"}

NetworkInterfaces ==
    [name : InterfaceNames, mac : BOOLEAN, up : BOOLEAN, loopback : BOOLEAN,
     ips : UNION {[1..n -> IpFamilies] : n \in 0..MaxInterfaceIps}]

\* datalink::interfaces(): the interfaces of the host, each name once
InterfaceLists ==
    {l \in UNION {[1..n -> NetworkInterfaces] : n \in 0..MaxInterfaces} :
        \A i, j \in DOMAIN l : l[i].name = l[j].name => i = j}

\* iter().find(..): the element of s of the lowest of the indices found,
\* or None
First(s, found) ==
    IF found = {} THEN None
    ELSE Some(s[CHOOSE i \in found : \A j \in found : i <= j])

is_ipv4(ip) == ip = "v4"

\* utils.rs 65-86
select_default_interface(interfaces) ==
    LET accepts(interface) ==
            IF ~interface.mac THEN FALSE
            ELSE IF interface.ips = << >> \/ ~interface.up \/ interface.loopback THEN FALSE
            ELSE IF First(interface.ips, {i \in DOMAIN interface.ips : is_ipv4(interface.ips[i])}) = None
            THEN FALSE
            ELSE TRUE
    IN  First(interfaces, {i \in DOMAIN interfaces : accepts(interfaces[i])})

\* main.rs 44-84: the root check, the name of the interface (the one given,
\* else the default one), the interface of that name that is up and not
\* loopback, and its first address, which must be an IPv4 one
SelectInterface(interfaces, interface_name, is_root_user) ==
    IF ~is_root_user THEN [state |-> "Exit1", interface |-> None]
    ELSE LET default_interface == select_default_interface(interfaces)
         IN  IF interface_name = None /\ default_interface = None
             THEN [state |-> "Exit1", interface |-> None]
             ELSE LET name == IF interface_name # None THEN interface_name[1]
                              ELSE default_interface[1].name
                      matches(interface) ==
                          interface.name = name /\ interface.up /\ ~interface.loopback
                      selected_interface_ ==
                          First(interfaces, {i \in DOMAIN interfaces : matches(interfaces[i])})
                  IN  IF selected_interface_ = None
                      THEN [state |-> "Exit1", interface |-> None]
                      ELSE IF selected_interface_[1].ips = << >>
                      THEN [state |-> "Exit1", interface |-> None]
                      ELSE IF ~is_ipv4(Head(selected_interface_[1].ips))
                      THEN [state |-> "Exit1", interface |-> None]
                      ELSE [state |-> "InterfaceSelected", interface |-> selected_interface_]

\* the names that --interface can give: those of the host and another one
RequestedNames == {None} \cup {Some(n) : n \in InterfaceNames \cup {"wlan0"}}

SelectionCalls ==
    [interfaces : InterfaceLists, interface_name : RequestedNames, is_root_user : BOOLEAN]

InitSelect ==
    /\ call_args \in {Some(c) : c \in SelectionCalls}
    /\ call_result = None /\ SingleCall
    /\ IterIdle /\ ScanIdle

\* main.rs 44-84: Init to InterfaceSelected, or the exit
CallSelect ==
    /\ call_args # None /\ call_result = None
    /\ call_result' = Some(SelectInterface(call_args[1].interfaces, call_args[1].interface_name,
                                           call_args[1].is_root_user))
    /\ UNCHANGED <<call_args, call_log, vendor_list, scanVars, iterVars>>

\* main.rs 106-116: datalink::channel opens an Ethernet channel on the
\* interface, or fails and ends the process
OpenChannel ==
    /\ call_result # None /\ call_result[1].state = "InterfaceSelected"
    /\ \E opened \in BOOLEAN :
          call_result' = Some([call_result[1] EXCEPT
                                  !.state = IF opened THEN "ChannelOpen" ELSE "Exit1"])
    /\ UNCHANGED <<call_args, call_log, vendor_list, scanVars, iterVars>>

SpecSelect == InitSelect /\ [][CallSelect \/ OpenChannel]_vars

(***************************************************************************)
(* Claims on the choice of the interface, under SpecSelect.                *)
(***************************************************************************)
\* the interface exists, is up, is not loopback and has an IPv4 address
Usable(interface) ==
    interface.up /\ ~interface.loopback /\ \E i \in DOMAIN interface.ips : interface.ips[i] = "v4"

\* the interfaces among which the orchestrator chooses: those of the name
\* given, else those that have a MAC address
Candidates ==
    LET a == call_args[1]
    IN  {i \in DOMAIN a.interfaces :
            IF a.interface_name # None THEN a.interfaces[i].name = a.interface_name[1]
                                       ELSE a.interfaces[i].mac}

\* the orchestrator went from Init to InterfaceSelected
LeftInit == call_result # None /\ call_result[1].interface # None

\* C28: run as root, the orchestrator leaves Init for InterfaceSelected
\* exactly when the chosen interface exists, is up, is not loopback and has
\* an IPv4 address, in whatever position; an interface that fails one of the
\* conditions does not reach ChannelOpen.
C28_SelectedIffUsable ==
    /\ (call_result # None /\ call_args[1].is_root_user) =>
          (LeftInit <=> \E i \in Candidates : Usable(call_args[1].interfaces[i]))
    /\ LeftInit => Usable(call_result[1].interface[1])

(***************************************************************************)
(* The vendor database, vendor.rs.  The file is the sequence of its rows,  *)
(* a row the sequence of its fields, a field a sequence of characters or   *)
(* of words.  The reader is the csv::Reader of the crate csv with its      *)
(* default configuration (has_headers, not flexible) over a file that can  *)
(* be read: pos is the row that the next read returns.                     *)
(***************************************************************************)
MaxRows == 3

MaxLookups == 2

HexDigits == <<"0", "1", "2", "3", "4", "5", "6", "7", "8", "9", "A", "B", "C", "D", "E", "F">>

\* format!("{:02X}", byte)
FormatHex2(byte) == <<HexDigits[(byte \div 16) + 1], HexDigits[(byte % 16) + 1]>>

\* vendor.rs 48: format!("{:02X}{:02X}{:02X}", mac.0, mac.1, mac.2)
vendor_oui(mac_address) ==
    FormatHex2(mac_address[1]) \o FormatHex2(mac_address[2]) \o FormatHex2(mac_address[3])

\* Reader::from_reader(file)
ReaderFromReader(file) ==
    [file |-> file, pos |-> 1, seeked |-> FALSE, headers |-> None, first_field_count |-> None]

\* vendor.rs 21-33: Vendor::new on the result of File::open
VendorNew(file_result) ==
    [reader |-> IF file_result = None THEN None ELSE Some(ReaderFromReader(file_result[1]))]

\* vendor.rs 35-37
VendorHasDb(v) == v.reader # None

\* csv: the next row of the file, None at its end; a row that has another
\* number of fields than the first row read is an error
read_byte_record_impl(rd) ==
    IF rd.pos > Len(rd.file)
    THEN [reader |-> rd, record |-> None, err |-> FALSE]
    ELSE LET row == rd.file[rd.pos]
             count == unwrap_or(rd.first_field_count, Len(row))
         IN  IF Len(row) # count
             THEN [reader |-> [rd EXCEPT !.pos = @ + 1], record |-> None, err |-> TRUE]
             ELSE [reader |-> [rd EXCEPT !.pos = @ + 1, !.first_field_count = Some(count)],
                   record |-> Some(row), err |-> FALSE]

\* csv byte_headers: reads the first row as the headers, once
byte_headers(rd) ==
    IF rd.headers # None THEN rd
    ELSE LET r == read_byte_record_impl(rd)
         IN  [r.reader EXCEPT !.headers = Some(unwrap_or(r.record, << >>))]

\* the headers are read and the skip is switched off, but the reader stays
\* where it is
Mutant_seek(rd, pos) == [byte_headers(rd) EXCEPT !.seeked = TRUE]

\* csv Reader::seek: reads the headers when they were not read, switches
\* off the skip of the first row, and moves to the position given
seek(rd, pos) ==
    LET s == [byte_headers(rd) EXCEPT !.seeked = TRUE]
    IN  IF pos = s.pos THEN s ELSE [s EXCEPT !.pos = pos]

\* csv Reader::read_record: the next record; before any seek, the first row
\* is kept as the headers and the row after it is returned
read_record(rd) ==
    LET r == read_byte_record_impl(rd)
    IN  IF ~r.err /\ ~rd.seeked /\ rd.headers = None
        THEN read_byte_record_impl([r.reader EXCEPT !.headers = Some(unwrap_or(r.record, << >>))])
        ELSE r

\* StringRecord::get(i): the field of index i, counted from 0
get(record, i) == IF i + 1 <= Len(record) THEN Some(record[i + 1]) ELSE None

\* vendor.rs 58-71: the loop over reader.records(); exit tells that the
\* lookup ended the process (vendor.rs 62)
RECURSIVE SearchRecords(_, _)
SearchRecords(rd, oui) ==
    LET r == read_record(rd)
    IN  IF r.err THEN [reader |-> r.reader, result |-> None, exit |-> TRUE]
        ELSE IF r.record = None THEN [reader |-> r.reader, result |-> None, exit |-> FALSE]
        ELSE LET record == r.record[1]
                 potential_oui == unwrap_or(get(record, 1), << >>)
             IN  IF oui = potential_oui
                 THEN [reader |-> r.reader,
                       result |-> Some(unwrap_or(get(record, 2), <<"(no vendor)">>)),
                       exit |-> FALSE]
                 ELSE SearchRecords(r.reader, oui)

\* vendor.rs 41-75
search_by_mac(v, mac_address) ==
    IF v.reader = None THEN [vendor |-> v, result |-> None, exit |-> FALSE]
    ELSE LET found == SearchRecords(seek(v.reader[1], 1), vendor_oui(mac_address))
         IN  [vendor |-> [reader |-> Some(found.reader)], result |-> found.result,
              exit |-> found.exit]

\* the first three octets of the addresses looked up: 00:22:72, 01:01:01
\* and AB:CD:EF
MacPrefixes == {<<0, 34, 114>>, <<1, 1, 1>>, <<171, 205, 239>>}

\* rows of a database: a header, two records of the key 002272, a record of
\* the key 010101, records whose key is not padded or not in upper case,
\* and a record of two fields
DatabaseRows ==
    {<<<<"Registry">>, <<"Assignment">>, <<"Organization Name">>>>,
     <<<<"MA-L">>, <<"0", "0", "2", "2", "7", "2">>, <<"American Micro-Fuel Device Corp.">>>>,
     <<<<"MA-L">>, <<"0", "0", "2", "2", "7", "2">>, <<"Other Corp.">>>>,
     <<<<"MA-L">>, <<"0", "1", "0", "1", "0", "1">>, <<"SomeCorp">>>>,
     <<<<"MA-L">>, <<"0", "2", "2", "7", "2">>, <<"Unpadded">>>>,
     <<<<"MA-L">>, <<"a", "b", "c", "d", "e", "f">>, <<"Lower">>>>,
     <<<<"MA-L">>, <<"0", "1", "0", "1", "0", "1">>>>}

DatabaseFiles == UNION {[1..n -> DatabaseRows] : n \in 0..MaxRows}

InitVendor ==
    /\ vendor_list \in {Some(VendorNew(f)) : f \in {None} \cup {Some(d) : d \in DatabaseFiles}}
    /\ call_log = << >>
    /\ call_args = None /\ call_result = None
    /\ IterIdle /\ ScanIdle

\* one call of search_by_mac on the instance; no call follows an exit
VendorSearch ==
    /\ vendor_list # None
    /\ Len(call_log) < MaxLookups
    /\ call_log # << >> => ~call_log[Len(call_log)].exit
    /\ \E mac \in MacPrefixes :
          LET r == search_by_mac(vendor_list[1], mac)
          IN  /\ vendor_list' = Some(r.vendor)
              /\ call_log' = Append(call_log, [args |-> mac, result |-> r.result,
                                                exit |-> r.exit])
    /\ UNCHANGED <<call_args, call_result, scanVars, iterVars>>

SpecVendor == InitVendor /\ [][VendorSearch]_vars

(***************************************************************************)
(* Claims on the vendor lookups, under SpecVendor.                         *)
(***************************************************************************)
\* the file of the database of the instance
DatabaseFile == vendor_list[1].reader[1].file

\* the key of an address: six hexadecimal characters in upper case, two for
\* each of the first three octets
KeyOf(mac) ==
    LET Pair(b) == <<HexDigits[(b \div 16) + 1], HexDigits[(b % 16) + 1]>>
    IN  Pair(mac[1]) \o Pair(mac[2]) \o Pair(mac[3])

\* the name of the first data record of the file whose OUI column is the
\* key, the first row of the file being its header
FirstDataRecord(file, key) ==
    LET matching == {i \in 2..Len(file) : file[i][2] = key}
    IN  IF matching = {} THEN None
        ELSE Some(file[CHOOSE i \in matching : \A j \in matching : i <= j][3])

\* C21: on a database whose rows all have the three columns, a lookup
\* returns the vendor name of the first data record whose OUI column is the
\* key of the address, six upper-case hexadecimal characters, and None when
\* there is none; the header row is not matched as a record.
C21_FirstDataRecordOfKey ==
    (/\ vendor_list # None /\ VendorHasDb(vendor_list[1])
     /\ \A i \in DOMAIN DatabaseFile : Len(DatabaseFile[i]) = 3) =>
        \A k \in DOMAIN call_log :
            /\ ~call_log[k].exit
            /\ call_log[k].result = FirstDataRecord(DatabaseFile, KeyOf(call_log[k].args))

\* the lookup of mac on the database freshly opened
OnFreshDatabase(mac) ==
    search_by_mac(VendorNew(IF VendorHasDb(vendor_list[1]) THEN Some(DatabaseFile) ELSE None),
                  mac)

\* C22: each lookup of a sequence of lookups on one instance returns what
\* the same lookup returns on the database freshly opened.
C22_LookupsIndependent ==
    vendor_list # None =>
        \A k \in DOMAIN call_log :
            /\ call_log[k].result = OnFreshDatabase(call_log[k].args).result
            /\ call_log[k].exit = OnFreshDatabase(call_log[k].args).exit

\* a miss that read the whole file, then a lookup that finds its first
\* record after the header
C22_Witness ==
    /\ vendor_list # None /\ VendorHasDb(vendor_list[1])
    /\ Len(DatabaseFile) = MaxRows
    /\ DatabaseFile[1][2] = <<"Assignment">>
    /\ Len(call_log) = 2
    /\ call_log[1].result = None
    /\ call_log[2].result = Some(DatabaseFile[2][3])

====
